---- MODULE Spec2Model ----
(***************************************************************************)
(* Model of the versioned-record store of mcp-memory-system:               *)
(* src/memory_db.py (MemoryDB), src/config.py (keyword tables, key and     *)
(* confidence classification).  A text is a sequence of characters: an     *)
(* ASCII character is itself, any other character is "uXXXX", its code     *)
(* point.  Substring search, lowercasing and tokenisation are computed on  *)
(* these sequences as the Python code computes them on strings.            *)
(***************************************************************************)
EXTENDS Integers, Sequences, FiniteSets, TLC

(* ---------------- bounds of the model ---------------- *)

\* Rows the table may hold: insert_draft and supersede are not started
\* beyond it.
MaxRows == 3

(* ---------------- texts ---------------- *)

UpperCase == <<"A","B","C","D","E","F","G","H","I","J","K","L","M",
               "N","O","P","Q","R","S","T","U","V","W","X","Y","Z">>

LowerCase == <<"a","b","c","d","e","f","g","h","i","j","k","l","m",
               "n","o","p","q","r","s","t","u","v","w","x","y","z">>

Digits == {"0","1","2","3","4","5","6","7","8","9"}

UpperSet == {UpperCase[i] : i \in 1..26}

LowerSet == {LowerCase[i] : i \in 1..26}

\* str.lower() on one character (ASCII letters; kana and kanji have no case)
LowerChar(c) ==
  IF c \in UpperSet
    THEN LowerCase[CHOOSE i \in 1..26 : UpperCase[i] = c]
    ELSE c

\* str.lower()
Lower(s) == [i \in 1..Len(s) |-> LowerChar(s[i])]

\* Python's `p in text` on strings: p occurs as a contiguous substring
Contains(text, p) ==
  \E i \in 0..(Len(text) - Len(p)) :
     \A j \in 1..Len(p) : text[i + j] = p[j]

Min(S) == CHOOSE x \in S : \A y \in S : x <= y

(* ---------------- src/config.py: keyword tables ---------------- *)

KEYWORD_MAP_CONSTITUTION ==
  <<
    <<"architecture_overview", <<
        <<"u30A2", "u30FC", "u30AD", "u30C6", "u30AF", "u30C1", "u30E3">>,  \* アーキテクチャ
        <<"u5168", "u4F53", "u69CB", "u6210">>,  \* 全体構成
        <<"u69CB", "u6210">>,  \* 構成
        <<"u30EC", "u30A4", "u30E4">>,  \* レイヤ
        <<"u4E09", "u5C64">>,  \* 三層
        <<"u30E2", "u30CE", "u30EA", "u30B9">>,  \* モノリス
        <<"u30DE", "u30A4", "u30AF", "u30ED", "u30B5", "u30FC", "u30D3", "u30B9">>  \* マイクロサービス
    >> >>,
    <<"component_responsibility", <<
        <<"u8CAC", "u52D9">>,  \* 責務
        <<"u5F79", "u5272">>,  \* 役割
        <<"u5206", "u62C5">>,  \* 分担
        <<"u5883", "u754C">>,  \* 境界
        <<"u30B3", "u30F3", "u30DD", "u30FC", "u30CD", "u30F3", "u30C8">>,  \* コンポーネント
        <<"u30B5", "u30FC", "u30D3", "u30B9", "u5206", "u5272">>  \* サービス分割
    >> >>,
    <<"data_flow_overview", <<
        <<"u30C7", "u30FC", "u30BF", "u30D5", "u30ED", "u30FC">>,  \* データフロー
        <<"u51E6", "u7406", "u30D5", "u30ED", "u30FC">>,  \* 処理フロー
        <<"u540C", "u671F">>,  \* 同期
        <<"u975E", "u540C", "u671F">>,  \* 非同期
        <<"u30A4", "u30D9", "u30F3", "u30C8">>,  \* イベント
        <<"u30AD", "u30E5", "u30FC">>  \* キュー
    >> >>,
    <<"integration_overview", <<
        <<"u9023", "u643A">>,  \* 連携
        <<"u5916", "u90E8", "A", "P", "I">>,  \* 外部API
        <<"W", "e", "b", "h", "o", "o", "k">>,  \* Webhook
        <<"u30D0", "u30C3", "u30C1", "u9023", "u643A">>,  \* バッチ連携
        <<"E", "T", "L">>  \* ETL
    >> >>,
    <<"security_baseline", <<
        <<"u30BB", "u30AD", "u30E5", "u30EA", "u30C6", "u30A3">>,  \* セキュリティ
        <<"u6700", "u5C0F", "u6A29", "u9650">>,  \* 最小権限
        <<"u6697", "u53F7", "u5316">>,  \* 暗号化
        <<"T", "L", "S">>,  \* TLS
        <<"u76E3", "u67FB">>,  \* 監査
        <<"u30B3", "u30F3", "u30D7", "u30E9", "u30A4", "u30A2", "u30F3", "u30B9">>  \* コンプライアンス
    >> >>,
    <<"availability_slo", <<
        <<"u53EF", "u7528", "u6027">>,  \* 可用性
        <<"u5197", "u9577", "u5316">>,  \* 冗長化
        <<"H", "A">>,  \* HA
        <<"S", "L", "O">>,  \* SLO
        <<"S", "L", "A">>,  \* SLA
        <<"R", "T", "O">>,  \* RTO
        <<"R", "P", "O">>,  \* RPO
        <<"D", "R">>  \* DR
    >> >>,
    <<"scalability_strategy", <<
        <<"u30B9", "u30B1", "u30FC", "u30EB">>,  \* スケール
        <<"u6C34", "u5E73">>,  \* 水平
        <<"u5782", "u76F4">>,  \* 垂直
        <<"u30AA", "u30FC", "u30C8", "u30B9", "u30B1", "u30FC", "u30EB">>,  \* オートスケール
        <<"u8CA0", "u8377", "u5206", "u6563">>  \* 負荷分散
    >> >>,
    <<"observability_strategy", <<
        <<"u53EF", "u89B3", "u6E2C", "u6027">>,  \* 可観測性
        <<"u76E3", "u8996">>,  \* 監視
        <<"u30ED", "u30B0">>,  \* ログ
        <<"u30E1", "u30C8", "u30EA", "u30AF", "u30B9">>,  \* メトリクス
        <<"u30C8", "u30EC", "u30FC", "u30B9">>,  \* トレース
        <<"A", "P", "M">>,  \* APM
        <<"u76F8", "u95A2", "I", "D">>  \* 相関ID
    >> >>,
    <<"data_retention_policy", <<
        <<"u4FDD", "u6301">>,  \* 保持
        <<"r", "e", "t", "e", "n", "t", "i", "o", "n">>,  \* retention
        <<"u4FDD", "u5B58", "u671F", "u9593">>,  \* 保存期間
        <<"u5E74", "u6570">>  \* 年数
    >> >>,
    <<"release_governance", <<
        <<"u30EA", "u30EA", "u30FC", "u30B9">>,  \* リリース
        <<"u5909", "u66F4", "u7BA1", "u7406">>,  \* 変更管理
        <<"u30EC", "u30D3", "u30E5", "u30FC">>,  \* レビュー
        <<"u627F", "u8A8D">>,  \* 承認
        <<"u30ED", "u30FC", "u30EB", "u30D0", "u30C3", "u30AF">>,  \* ロールバック
        <<"u6BB5", "u968E", "u30EA", "u30EA", "u30FC", "u30B9">>  \* 段階リリース
    >> >>
  >>

KEYWORD_MAP_OPERATION ==
  <<
    <<"os_baseline", <<
        <<"O", "S">>,  \* OS
        <<"L", "i", "n", "u", "x">>,  \* Linux
        <<"W", "i", "n", "d", "o", "w", "s">>,  \* Windows
        <<"u30D1", "u30C3", "u30C1">>,  \* パッチ
        <<"u30A2", "u30C3", "u30D7", "u30C7", "u30FC", "u30C8">>,  \* アップデート
        <<"E", "O", "L">>,  \* EOL
        <<"L", "T", "S">>  \* LTS
    >> >>,
    <<"server_sizing_policy", <<
        <<"u30B5", "u30FC", "u30D0">>,  \* サーバ
        <<"u30B9", "u30DA", "u30C3", "u30AF">>,  \* スペック
        <<"C", "P", "U">>,  \* CPU
        <<"v", "C", "P", "U">>,  \* vCPU
        <<"u30E1", "u30E2", "u30EA">>,  \* メモリ
        <<"R", "A", "M">>,  \* RAM
        <<"u30C7", "u30A3", "u30B9", "u30AF">>,  \* ディスク
        <<"u30B5", "u30A4", "u30B8", "u30F3", "u30B0">>  \* サイジング
    >> >>,
    <<"storage_layout_policy", <<
        <<"u30D1", "u30FC", "u30C6", "u30A3", "u30B7", "u30E7", "u30F3">>,  \* パーティション
        <<"L", "V", "M">>,  \* LVM
        <<"R", "A", "I", "D">>,  \* RAID
        <<"u30DE", "u30A6", "u30F3", "u30C8">>,  \* マウント
        <<"I", "O", "P", "S">>,  \* IOPS
        <<"u6697", "u53F7", "u5316", "u30C7", "u30A3", "u30B9", "u30AF">>  \* 暗号化ディスク
    >> >>,
    <<"capacity_management", <<
        <<"u5BB9", "u91CF", "u7BA1", "u7406">>,  \* 容量管理
        <<"u4F7F", "u7528", "u7387">>,  \* 使用率
        <<"u903C", "u8FEB">>,  \* 逼迫
        <<"u95BE", "u5024">>,  \* 閾値
        <<"u5897", "u8A2D">>,  \* 増設
        <<"u30EA", "u30B5", "u30A4", "u30BA">>  \* リサイズ
    >> >>,
    <<"virtualization_platform", <<
        <<"u4EEE", "u60F3", "u5316">>,  \* 仮想化
        <<"V", "M">>,  \* VM
        <<"u30CF", "u30A4", "u30D1", "u30FC", "u30D0", "u30A4", "u30B6">>,  \* ハイパーバイザ
        <<"u30B3", "u30F3", "u30C6", "u30CA">>,  \* コンテナ
        <<"D", "o", "c", "k", "e", "r">>,  \* Docker
        <<"K", "u", "b", "e", "r", "n", "e", "t", "e", "s">>  \* Kubernetes
    >> >>,
    <<"network_topology", <<
        <<"u30CD", "u30C3", "u30C8", "u30EF", "u30FC", "u30AF">>,  \* ネットワーク
        <<"V", "P", "C">>,  \* VPC
        <<"u30B5", "u30D6", "u30CD", "u30C3", "u30C8">>,  \* サブネット
        <<"u30BB", "u30B0", "u30E1", "u30F3", "u30C8">>,  \* セグメント
        <<"N", "A", "T">>,  \* NAT
        <<"u30D7", "u30ED", "u30AD", "u30B7">>  \* プロキシ
    >> >>,
    <<"port_and_protocol_policy", <<
        <<"u30DD", "u30FC", "u30C8">>,  \* ポート
        <<"p", "r", "o", "t", "o", "c", "o", "l">>,  \* protocol
        <<"T", "C", "P">>,  \* TCP
        <<"U", "D", "P">>,  \* UDP
        <<"u516C", "u958B">>,  \* 公開
        <<"u5185", "u90E8", "u901A", "u4FE1">>,  \* 内部通信
        <<"m", "T", "L", "S">>,  \* mTLS
        <<"4", "4", "3">>,  \* 443
        <<"8", "0">>  \* 80
    >> >>,
    <<"dns_and_routing_policy", <<
        <<"D", "N", "S">>,  \* DNS
        <<"u540D", "u524D", "u89E3", "u6C7A">>,  \* 名前解決
        <<"F", "Q", "D", "N">>,  \* FQDN
        <<"C", "N", "A", "M", "E">>,  \* CNAME
        <<"u30EB", "u30FC", "u30C8">>,  \* ルート
        <<"r", "o", "u", "t", "e">>  \* route
    >> >>,
    <<"load_balancing_policy", <<
        <<"u30ED", "u30FC", "u30C9", "u30D0", "u30E9", "u30F3", "u30B5">>,  \* ロードバランサ
        <<"L", "B">>,  \* LB
        <<"u8CA0", "u8377", "u5206", "u6563">>,  \* 負荷分散
        <<"L", "7">>,  \* L7
        <<"L", "4">>,  \* L4
        <<"u30D8", "u30EB", "u30B9", "u30C1", "u30A7", "u30C3", "u30AF">>  \* ヘルスチェック
    >> >>,
    <<"firewall_policy", <<
        <<"u30D5", "u30A1", "u30A4", "u30A2", "u30A6", "u30A9", "u30FC", "u30EB">>,  \* ファイアウォール
        <<"F", "W">>,  \* FW
        <<"W", "A", "F">>,  \* WAF
        <<"A", "C", "L">>,  \* ACL
        <<"a", "l", "l", "o", "w">>,  \* allow
        <<"d", "e", "n", "y">>,  \* deny
        <<"u30DB", "u30EF", "u30A4", "u30C8", "u30EA", "u30B9", "u30C8">>  \* ホワイトリスト
    >> >>,
    <<"access_control_policy", <<
        <<"u30A2", "u30AF", "u30BB", "u30B9", "u5236", "u5FA1">>,  \* アクセス制御
        <<"u8E0F", "u307F", "u53F0">>,  \* 踏み台
        <<"b", "a", "s", "t", "i", "o", "n">>,  \* bastion
        <<"u7BA1", "u7406", "u7D4C", "u8DEF">>,  \* 管理経路
        <<"I", "P", "u5236", "u9650">>  \* IP制限
    >> >>,
    <<"backup_and_restore_procedure", <<
        <<"u30D0", "u30C3", "u30AF", "u30A2", "u30C3", "u30D7">>,  \* バックアップ
        <<"u30EA", "u30B9", "u30C8", "u30A2">>,  \* リストア
        <<"u5FA9", "u5143">>,  \* 復元
        <<"u30B9", "u30CA", "u30C3", "u30D7", "u30B7", "u30E7", "u30C3", "u30C8">>,  \* スナップショット
        <<"u5FA9", "u65E7", "u8A13", "u7DF4">>  \* 復旧訓練
    >> >>,
    <<"authentication_method", <<
        <<"u8A8D", "u8A3C">>,  \* 認証
        <<"a", "u", "t", "h", "e", "n", "t", "i", "c", "a", "t", "i", "o", "n">>,  \* authentication
        <<"S", "S", "O">>,  \* SSO
        <<"O", "I", "D", "C">>,  \* OIDC
        <<"S", "A", "M", "L">>,  \* SAML
        <<"M", "F", "A">>  \* MFA
    >> >>,
    <<"authorization_model", <<
        <<"u8A8D", "u53EF">>,  \* 認可
        <<"a", "u", "t", "h", "o", "r", "i", "z", "a", "t", "i", "o", "n">>,  \* authorization
        <<"u6A29", "u9650">>,  \* 権限
        <<"R", "B", "A", "C">>,  \* RBAC
        <<"A", "B", "A", "C">>,  \* ABAC
        <<"u30ED", "u30FC", "u30EB">>  \* ロール
    >> >>,
    <<"secret_management", <<
        <<"u30B7", "u30FC", "u30AF", "u30EC", "u30C3", "u30C8">>,  \* シークレット
        <<"s", "e", "c", "r", "e", "t">>,  \* secret
        <<"A", "P", "I", "u30AD", "u30FC">>,  \* APIキー
        <<"u9375">>,  \* 鍵
        <<"K", "M", "S">>,  \* KMS
        <<"V", "a", "u", "l", "t">>,  \* Vault
        <<"u30ED", "u30FC", "u30C6", "u30FC", "u30B7", "u30E7", "u30F3">>  \* ローテーション
    >> >>,
    <<"certificate_policy", <<
        <<"u8A3C", "u660E", "u66F8">>,  \* 証明書
        <<"c", "e", "r", "t", "i", "f", "i", "c", "a", "t", "e">>,  \* certificate
        <<"T", "L", "S">>,  \* TLS
        <<"m", "T", "L", "S">>,  \* mTLS
        <<"C", "A">>,  \* CA
        <<"u671F", "u9650">>,  \* 期限
        <<"u66F4", "u65B0">>  \* 更新
    >> >>,
    <<"configuration_management", <<
        <<"u8A2D", "u5B9A">>,  \* 設定
        <<"c", "o", "n", "f", "i", "g">>,  \* config
        <<"u74B0", "u5883", "u5909", "u6570">>,  \* 環境変数
        <<".", "e", "n", "v">>,  \* .env
        <<"u8A2D", "u5B9A", "u30D5", "u30A1", "u30A4", "u30EB">>,  \* 設定ファイル
        <<"u30D1", "u30E9", "u30E1", "u30FC", "u30BF">>  \* パラメータ
    >> >>,
    <<"api_contract_policy", <<
        <<"A", "P", "I">>,  \* API
        <<"u5951", "u7D04">>,  \* 契約
        <<"O", "p", "e", "n", "A", "P", "I">>,  \* OpenAPI
        <<"u30B9", "u30AD", "u30FC", "u30DE">>,  \* スキーマ
        <<"u30D0", "u30FC", "u30B8", "u30E7", "u30F3">>,  \* バージョン
        <<"u4E92", "u63DB", "u6027">>  \* 互換性
    >> >>,
    <<"timeout_and_retry_policy", <<
        <<"u30BF", "u30A4", "u30E0", "u30A2", "u30A6", "u30C8">>,  \* タイムアウト
        <<"t", "i", "m", "e", "o", "u", "t">>,  \* timeout
        <<"u30EA", "u30C8", "u30E9", "u30A4">>,  \* リトライ
        <<"r", "e", "t", "r", "y">>,  \* retry
        <<"u30D0", "u30C3", "u30AF", "u30AA", "u30D5">>  \* バックオフ
    >> >>,
    <<"rate_limit_policy", <<
        <<"u30EC", "u30FC", "u30C8", "u5236", "u9650">>,  \* レート制限
        <<"r", "a", "t", "e", " ", "l", "i", "m", "i", "t">>,  \* rate limit
        <<"u30B9", "u30ED", "u30C3", "u30C8", "u30EA", "u30F3", "u30B0">>,  \* スロットリング
        <<"4", "2", "9">>,  \* 429
        <<"u30AF", "u30A9", "u30FC", "u30BF">>  \* クォータ
    >> >>,
    <<"error_handling_policy", <<
        <<"u30A8", "u30E9", "u30FC", "u51E6", "u7406">>,  \* エラー処理
        <<"u4F8B", "u5916">>,  \* 例外
        <<"e", "x", "c", "e", "p", "t", "i", "o", "n">>,  \* exception
        <<"u5931", "u6557", "u6642">>,  \* 失敗時
        <<"u30D5", "u30A9", "u30FC", "u30EB", "u30D0", "u30C3", "u30AF">>  \* フォールバック
    >> >>,
    <<"logging_policy", <<
        <<"u30ED", "u30B0">>,  \* ログ
        <<"u30ED", "u30B0", "u30EC", "u30D9", "u30EB">>,  \* ログレベル
        <<"u76F8", "u95A2", "I", "D">>,  \* 相関ID
        <<"P", "I", "I">>,  \* PII
        <<"u30DE", "u30B9", "u30AD", "u30F3", "u30B0">>,  \* マスキング
        <<"u76E3", "u67FB", "u30ED", "u30B0">>  \* 監査ログ
    >> >>,
    <<"database_schema_policy", <<
        <<"u30B9", "u30AD", "u30FC", "u30DE">>,  \* スキーマ
        <<"u30C6", "u30FC", "u30D6", "u30EB">>,  \* テーブル
        <<"D", "D", "L">>,  \* DDL
        <<"u4E3B", "u30AD", "u30FC">>,  \* 主キー
        <<"u5916", "u90E8", "u30AD", "u30FC">>,  \* 外部キー
        <<"u30DE", "u30A4", "u30B0", "u30EC", "u30FC", "u30B7", "u30E7", "u30F3">>  \* マイグレーション
    >> >>,
    <<"indexing_strategy", <<
        <<"u30A4", "u30F3", "u30C7", "u30C3", "u30AF", "u30B9">>,  \* インデックス
        <<"i", "n", "d", "e", "x">>,  \* index
        <<"u5B9F", "u884C", "u8A08", "u753B">>,  \* 実行計画
        <<"u30C1", "u30E5", "u30FC", "u30CB", "u30F3", "u30B0">>  \* チューニング
    >> >>,
    <<"transaction_policy", <<
        <<"u30C8", "u30E9", "u30F3", "u30B6", "u30AF", "u30B7", "u30E7", "u30F3">>,  \* トランザクション
        <<"A", "C", "I", "D">>,  \* ACID
        <<"u5206", "u96E2", "u30EC", "u30D9", "u30EB">>,  \* 分離レベル
        <<"u30ED", "u30C3", "u30AF">>,  \* ロック
        <<"S", "A", "G", "A">>  \* SAGA
    >> >>,
    <<"data_archival_procedure", <<
        <<"u524A", "u9664">>,  \* 削除
        <<"u30A2", "u30FC", "u30AB", "u30A4", "u30D6">>,  \* アーカイブ
        <<"u30B8", "u30E7", "u30D6">>,  \* ジョブ
        <<"u624B", "u9806">>  \* 手順
    >> >>,
    <<"test_strategy", <<
        <<"u30C6", "u30B9", "u30C8">>,  \* テスト
        <<"u5358", "u4F53">>,  \* 単体
        <<"u7D50", "u5408">>,  \* 結合
        <<"E", "2", "E">>,  \* E2E
        <<"u56DE", "u5E30">>,  \* 回帰
        <<"u8CA0", "u8377", "u8A66", "u9A13">>  \* 負荷試験
    >> >>,
    <<"ci_cd_pipeline_policy", <<
        <<"C", "I">>,  \* CI
        <<"C", "D">>,  \* CD
        <<"u30D1", "u30A4", "u30D7", "u30E9", "u30A4", "u30F3">>,  \* パイプライン
        <<"u30D3", "u30EB", "u30C9">>,  \* ビルド
        <<"u81EA", "u52D5", "u5316">>,  \* 自動化
        <<"u7F72", "u540D">>  \* 署名
    >> >>,
    <<"deployment_procedure", <<
        <<"u30C7", "u30D7", "u30ED", "u30A4">>,  \* デプロイ
        <<"B", "l", "u", "e", "/", "G", "r", "e", "e", "n">>,  \* Blue/Green
        <<"u30AB", "u30CA", "u30EA", "u30A2">>,  \* カナリア
        <<"u30ED", "u30FC", "u30EA", "u30F3", "u30B0">>,  \* ローリング
        <<"u30ED", "u30FC", "u30EB", "u30D0", "u30C3", "u30AF">>  \* ロールバック
    >> >>,
    <<"monitoring_and_alerting_rules", <<
        <<"u76E3", "u8996">>,  \* 監視
        <<"u30E1", "u30C8", "u30EA", "u30AF", "u30B9">>,  \* メトリクス
        <<"u30A2", "u30E9", "u30FC", "u30C8">>,  \* アラート
        <<"u95BE", "u5024">>,  \* 閾値
        <<"u30C0", "u30C3", "u30B7", "u30E5", "u30DC", "u30FC", "u30C9">>  \* ダッシュボード
    >> >>,
    <<"incident_response_runbook", <<
        <<"u969C", "u5BB3">>,  \* 障害
        <<"u30A4", "u30F3", "u30B7", "u30C7", "u30F3", "u30C8">>,  \* インシデント
        <<"u4E00", "u6B21", "u5BFE", "u5FDC">>,  \* 一次対応
        <<"u30A8", "u30B9", "u30AB", "u30EC", "u30FC", "u30B7", "u30E7", "u30F3">>,  \* エスカレーション
        <<"u30DD", "u30B9", "u30C8", "u30E2", "u30FC", "u30C6", "u30E0">>  \* ポストモーテム
    >> >>
  >>

TYPE_KEYWORDS ==
  <<
    <<"decision", <<
        <<"u6C7A", "u5B9A">>,  \* 決定
        <<"u5224", "u65AD">>,  \* 判断
        <<"u9078", "u629E">>,  \* 選択
        <<"u63A1", "u7528">>,  \* 採用
        <<"u5EC3", "u6B62">>,  \* 廃止
        <<"u306B", "u7D71", "u4E00">>,  \* に統一
        <<"u3092", "u4F7F", "u7528">>  \* を使用
    >> >>,
    <<"config", <<
        <<"u8A2D", "u5B9A">>,  \* 設定
        <<"u30D1", "u30E9", "u30E1", "u30FC", "u30BF">>,  \* パラメータ
        <<"u5024">>,  \* 値
        <<"c", "o", "n", "f", "i", "g", "u", "r", "e">>,  \* configure
        <<"u30BF", "u30A4", "u30E0", "u30A2", "u30A6", "u30C8">>,  \* タイムアウト
        <<"u30DD", "u30FC", "u30C8">>  \* ポート
    >> >>,
    <<"procedure", <<
        <<"u624B", "u9806">>,  \* 手順
        <<"u30D7", "u30ED", "u30BB", "u30B9">>,  \* プロセス
        <<"u30D5", "u30ED", "u30FC">>,  \* フロー
        <<"u3084", "u308A", "u65B9">>,  \* やり方
        <<"u5B9F", "u65BD">>,  \* 実施
        <<"u5B9F", "u884C">>  \* 実行
    >> >>,
    <<"design_note", <<
        <<"u539F", "u5247">>,  \* 原則
        <<"u65B9", "u91DD">>,  \* 方針
        <<"u54F2", "u5B66">>,  \* 哲学
        <<"u8003", "u3048", "u65B9">>,  \* 考え方
        <<"u7981", "u6B62">>,  \* 禁止
        <<"u5FC5", "u305A">>  \* 必ず
    >> >>
  >>

(* ---------------- src/config.py: classification ---------------- *)

\* the absent value (Python None / SQL NULL); no text equals it, a text's
\* elements being single characters
None == <<"None">>

\* the text taken from the title alone
TitleLowerOnly(title, content) == Lower(title)

\* text = (title + " " + content).lower()
JoinedLower(title, content) == Lower(title \o <<" ">> \o content)

\* index of the last table entry one of whose keywords occurs in text, 0 if none
LastMatch(table, text) ==
  LET hits == {i \in 1..Len(table) :
                 \E k \in 1..Len(table[i][2]) : Contains(text, Lower(table[i][2][k]))}
  IN  IF hits = {} THEN 0 ELSE CHOOSE x \in hits : \A y \in hits : y <= x

\* index of the first table entry one of whose keywords occurs in text, 0 if none
FirstMatch(table, text) ==
  LET hits == {i \in 1..Len(table) :
                 \E k \in 1..Len(table[i][2]) : Contains(text, Lower(table[i][2][k]))}
  IN  IF hits = {} THEN 0 ELSE Min(hits)

\* the operation table scanned before the constitution table
generate_key_operation_first(title, content) ==
  LET text == JoinedLower(title, content)
      c == FirstMatch(KEYWORD_MAP_CONSTITUTION, text)
      o == FirstMatch(KEYWORD_MAP_OPERATION, text)
  IN  IF o # 0 THEN <<KEYWORD_MAP_OPERATION[o][1], "operation">>
      ELSE IF c # 0 THEN <<KEYWORD_MAP_CONSTITUTION[c][1], "constitution">>
      ELSE None

generate_key_by_map(title, content) ==
  LET text == JoinedLower(title, content)
      c == FirstMatch(KEYWORD_MAP_CONSTITUTION, text)
      o == FirstMatch(KEYWORD_MAP_OPERATION, text)
  IN  IF c # 0 THEN <<KEYWORD_MAP_CONSTITUTION[c][1], "constitution">>
      ELSE IF o # 0 THEN <<KEYWORD_MAP_OPERATION[o][1], "operation">>
      ELSE None

decisive_patterns ==
  << <<"u306B","u7D71","u4E00">>, <<"u3092","u4F7F","u7528">>, <<"u5FC5","u305A">>, <<"u7981","u6B62">>,
     <<"u3057","u3066","u306F","u306A","u3089","u306A","u3044">> >>

\* the characters \d matches in a str pattern: the decimal digits of Unicode,
\* of which the model's texts use the ASCII and the full-width ones
DecimalDigits ==
  Digits \cup {"uFF10","uFF11","uFF12","uFF13","uFF14","uFF15","uFF16","uFF17","uFF18","uFF19"}

\* re.search(r'\d+|[A-Z][a-z]+', s)
HasConcrete(s) ==
  \/ \E i \in 1..Len(s) : s[i] \in DecimalDigits
  \/ \E i \in 1..(Len(s) - 1) : s[i] \in UpperSet /\ s[i + 1] \in LowerSet

\* HIGH whatever the type
judge_confidence_any_type(title, content, type_) ==
  LET text == JoinedLower(title, content)
      has_decisive == \E k \in 1..Len(decisive_patterns) :
                         Contains(text, decisive_patterns[k])
  IN  IF has_decisive /\ HasConcrete(title \o content) THEN "HIGH"
      ELSE IF Contains(text, <<"u63A8","u5968">>) \/ type_ = "procedure" THEN "MED"
      ELSE "LOW"

judge_confidence(title, content, type_) ==
  LET text == JoinedLower(title, content)
      has_decisive == \E k \in 1..Len(decisive_patterns) :
                         Contains(text, decisive_patterns[k])
      has_concrete == HasConcrete(title \o content)
  IN  IF has_decisive /\ has_concrete /\ type_ \in {"decision", "config"}
        THEN "HIGH"
      ELSE IF Contains(text, <<"u63A8","u5968">>) \/ type_ = "procedure"
        THEN "MED"
      ELSE "LOW"

(* ---------------- src/memory_db.py: tokens and similarity search ---------------- *)

\* the character class [A-Za-z0-9_]
WordChars == UpperSet \cup LowerSet \cup Digits \cup {"_"}

\* characters the FTS5 unicode61 tokenizer treats as separators (among the
\* characters the model's texts use); every other character is a token character
FtsSeparators == {" ", "_", ".", "/", "-", ":", "=", "(", ")", "u3002", "u3001", "uFF08", "uFF09", "\n"}

\* the n-th smallest element of a finite set of integers
Nth(S, n) == CHOOSE x \in S : Cardinality({y \in S : y < x}) = n - 1

\* c belongs to the character class: "word" is [A-Za-z0-9_], "fts" the token
\* characters of the FTS5 tokenizer
InClass(c, class) ==
  IF class = "word" THEN c \in WordChars ELSE c \notin FtsSeparators

\* the maximal runs of characters of a class, in order (re.findall of a
\* one-class pattern with +)
Runs(s, class) ==
  LET starts == {i \in 1..Len(s) :
                   InClass(s[i], class) /\ (i = 1 \/ ~InClass(s[i - 1], class))}
      endOf(i) == Min({j \in i..Len(s) :
                         j = Len(s) \/ ~InClass(s[j + 1], class)})
  IN  [n \in 1..Cardinality(starts) |->
         LET i == Nth(starts, n) IN SubSeq(s, i, endOf(i))]

\* tokens = re.findall(r"[A-Za-z0-9_]+", text); tokens = [t for t in tokens if len(t) >= 2]
AlnumTokens(text) == SelectSeq(Runs(text, "word"), LAMBDA t : Len(t) >= 2)

\* the gate written as: len(tokens) >= 1
HasAnyToken(text) == Len(AlnumTokens(text)) >= 1

_has_enough_info(text) == Len(AlnumTokens(text)) >= 2

\* tokens[:3]
FirstThree(tokens) == SubSeq(tokens, 1, IF Len(tokens) < 3 THEN Len(tokens) ELSE 3)

IsPrefix(p, t) == Len(p) <= Len(t) /\ \A j \in 1..Len(p) : p[j] = t[j]

\* the index terms of one indexed column: unicode61 tokens, case-folded (the
\* porter stemmer leaves tokens of at most two characters and tokens without
\* an English suffix, which are all the model's texts hold, as they are)
FtsTerms(s) == LET r == Runs(Lower(s), "fts") IN {r[n] : n \in 1..Len(r)}

\* memory_items_fts MATCH 't1* OR t2* OR t3*' on one index entry
FtsMatch(entry, tokens) ==
  \E n \in 1..Len(tokens) :
     \E u \in FtsTerms(entry.title) \cup FtsTerms(entry.content) :
        IsPrefix(Lower(tokens[n]), u)

(* ---------------- src/extractors.py: classification of a turn ---------------- *)

\* config.MAX_AUTO_SUGGESTIONS
MAX_AUTO_SUGGESTIONS == 5

\* the title is cut at 100 characters, the content at 500
TitleMax == 100

ContentMax == 500

\* に統一 を使用 必ず 禁止 してはならない 推奨 採用 廃止 べき ルール 原則 方針
decision_patterns ==
  << <<"u306B","u7D71","u4E00">>,
     <<"u3092","u4F7F","u7528">>,
     <<"u5FC5","u305A">>,
     <<"u7981","u6B62">>,
     <<"u3057","u3066","u306F","u306A","u3089","u306A","u3044">>,
     <<"u63A8","u5968">>,
     <<"u63A1","u7528">>,
     <<"u5EC3","u6B62">>,
     <<"u3079","u304D">>,
     <<"u30EB","u30FC","u30EB">>,
     <<"u539F","u5247">>,
     <<"u65B9","u91DD">> >>

\* _has_decision_pattern: any(p in text for p in patterns)
_has_decision_pattern(text) ==
  \E k \in 1..Len(decision_patterns) : Contains(text, decision_patterns[k])

\* the characters str.strip() removes
Whitespace == {" ", "\n", "\t", "u3000"}

\* str.strip()
Strip(s) ==
  LET keep == {i \in 1..Len(s) : s[i] \notin Whitespace}
  IN  IF keep = {} THEN <<>>
      ELSE SubSeq(s, Min(keep), CHOOSE x \in keep : \A y \in keep : y <= x)

\* s[:n]
Take(s, n) == SubSeq(s, 1, IF Len(s) < n THEN Len(s) ELSE n)

\* str.split(c): the pieces between the occurrences of c, empty ones included
Pieces(s, c) ==
  LET cuts == {i \in 1..Len(s) : s[i] = c}
      starts == {1} \cup {i + 1 : i \in cuts}
      endOf(a) == Min({j \in cuts : j >= a} \cup {Len(s) + 1}) - 1
  IN  [n \in 1..Cardinality(starts) |->
         LET a == Nth(starts, n) IN SubSeq(s, a, endOf(a))]

\* _extract_title: the first sentence of the first line of more than 10
\* characters, cut at 100; without such a line the first 100 characters
_extract_title(text) ==
  LET lines == Pieces(Strip(text), "\n")
      long == {n \in 1..Len(lines) : Len(Strip(lines[n])) > 10}
  IN  IF long # {}
        THEN Take(Strip(Pieces(Strip(lines[Min(long)]), "u3002")[1]), TitleMax)
        ELSE Strip(Take(text, TitleMax))

\* _extract_content: the text as it is, cut at 500
_extract_content(text) == Take(Strip(text), ContentMax)

\* score = sum(1 for k in keywords if k in text), for the i-th type of TYPE_KEYWORDS
TypeScore(i, text) ==
  Cardinality({k \in 1..Len(TYPE_KEYWORDS[i][2]) : Contains(text, TYPE_KEYWORDS[i][2][k])})

\* the last type of the best score instead of the first
judge_type_last(title, content) ==
  LET text == JoinedLower(title, content)
      n == Len(TYPE_KEYWORDS)
      best == CHOOSE i \in 1..n :
                /\ \A j \in 1..n : TypeScore(j, text) <= TypeScore(i, text)
                /\ \A j \in (i + 1)..n : TypeScore(j, text) < TypeScore(i, text)
  IN  IF TypeScore(best, text) > 0 THEN TYPE_KEYWORDS[best][1] ELSE "decision"

\* judge_type: max(type_scores, key=type_scores.get) is the first type, in the
\* order of TYPE_KEYWORDS, of the best score
judge_type(title, content) ==
  LET text == JoinedLower(title, content)
      n == Len(TYPE_KEYWORDS)
      max_type == CHOOSE i \in 1..n :
                    /\ \A j \in 1..n : TypeScore(j, text) <= TypeScore(i, text)
                    /\ \A j \in 1..(i - 1) : TypeScore(j, text) < TypeScore(i, text)
  IN  IF TypeScore(max_type, text) > 0 THEN TYPE_KEYWORDS[max_type][1] ELSE "decision"

\* set(title)
CharSet(s) == {s[i] : i \in 1..Len(s)}

\* common = set(title) & set(existing_title);
\* similarity = len(common) / max(len(title), len(existing_title)); similarity > 0.7
SimilarTitles(title, existing_title) ==
  10 * Cardinality(CharSet(title) \cap CharSet(existing_title))
    > 7 * (IF Len(title) < Len(existing_title) THEN Len(existing_title) ELSE Len(title))

\* _is_duplicate: the title equals, or is similar to, the title of a kept item
_is_duplicate(title, content, existing) ==
  \E n \in 1..Len(existing) :
     title = existing[n].title \/ SimilarTitles(title, existing[n].title)

(* ---------------- inputs of the operations ---------------- *)

Procs == {"c1", "c2"}

NoProc == "none"

T_timeout == <<"u30BF","u30A4","u30E0","u30A2","u30A6","u30C8"," ","a","b">>

T_arch == <<"u69CB","u6210">>

C_unify == <<"3","0","u79D2","u306B","u7D71","u4E00">>

C_empty == <<>>

\* (title, content, type) triples given to insert_draft
DraftInputs ==
  { <<T_timeout, C_unify, "config">>,
    <<T_arch, C_empty, "decision">> }

\* (new_title, new_content) pairs given to supersede_item
NewTexts == { << <<"c","d">>, <<"6","0","u79D2","u3092","u4F7F","u7528">> >> }

\* conversation ids: save_draft passes the server's current_conversation_id
ConvIds == {None}

NewConvIds == {None, <<"c","o","n","v","2">>}

\* datetime.now().strftime('%Y-%m-%d')
Dates == { <<"2","0","2","6","-","1","1","-","0","4">> }

(* ---------------- state ---------------- *)

VARIABLES
  db,       \* the committed database: [items, fts]
  lock,     \* the connection holding SQLite's write lock, or NoProc
  pc,       \* per connection: the statement it executes next
  call,     \* per connection: the operation in progress and its arguments
  loc,      \* per connection: the local variables of the operation
  tx,       \* per connection: the working copy of its open write transaction
  dirty,    \* per connection: the row ids its open transaction has written
  res,      \* per connection: what the last call returned or raised
  demoted   \* history: ids of the rows whose is_canonical went TRUE -> FALSE

vars == <<db, lock, pc, call, loc, tx, dirty, res, demoted>>

NoCall == [op |-> "none"]

NoRes == [state |-> "none", exc |-> "none", msg |-> "none", id |-> 0, at |-> "none",
          rows |-> {}, ret |-> None]

NoLoc == [key |-> None, key_layer |-> None, confidence |-> None, type |-> None,
          content |-> None, id |-> 0, similar |-> "unset",
          title |-> None, turn |-> 0, suggestions |-> <<>>]

(* ---------------- src/memory_db.py: schema, statements, triggers ---------------- *)

EmptyDB == [items |-> <<>>, fts |-> <<>>]

Ids(d) == DOMAIN d.items

IsCanonicalFinal(r) == r.is_canonical /\ r.status = "final"

\* CREATE UNIQUE INDEX idx_memory_canonical_key ON memory_items(key, key_layer)
\*   WHERE is_canonical=TRUE AND status='final'
idx_memory_canonical_key(d) ==
  \A i, j \in Ids(d) :
     ( /\ IsCanonicalFinal(d.items[i]) /\ IsCanonicalFinal(d.items[j])
       /\ d.items[i].key = d.items[j].key
       /\ d.items[i].key_layer = d.items[j].key_layer ) => i = j

\* trigger memory_fts_insert
memory_fts_insert(fts, id, new) ==
  [i \in DOMAIN fts \cup {id} |->
     IF i = id THEN [title |-> new.title, content |-> new.content] ELSE fts[i]]

\* the FTS5 'delete' command of the triggers
FtsDelete(fts, id) == [i \in DOMAIN fts \ {id} |-> fts[i]]

\* the trigger with its 'delete' command alone
FtsUpdateDeleteOnly(fts, id, new) == FtsDelete(fts, id)

\* trigger memory_fts_update: delete the old entry, then insert the new one
memory_fts_update(fts, id, new) == memory_fts_insert(FtsDelete(fts, id), id, new)

\* INSERT INTO memory_items ...: the row gets the next AUTOINCREMENT id
SqlInsert(d, row) ==
  LET id == Len(d.items) + 1
  IN  [items |-> Append(d.items, row), fts |-> memory_fts_insert(d.fts, id, row)]

\* the UPDATE that sets status and leaves is_canonical as it is
SqlUpdateStatusOnly(d, id, status, canonical) ==
  IF id \notin Ids(d) THEN d
  ELSE LET new == [d.items[id] EXCEPT !.status = status]
       IN  [items |-> [d.items EXCEPT ![id] = new],
            fts |-> memory_fts_update(d.fts, id, new)]

\* UPDATE memory_items SET status=?, is_canonical=? WHERE id=?
SqlUpdate(d, id, status, canonical) ==
  IF id \notin Ids(d) THEN d
  ELSE LET new == [d.items[id] EXCEPT !.status = status, !.is_canonical = canonical]
       IN  [items |-> [d.items EXCEPT ![id] = new],
            fts |-> memory_fts_update(d.fts, id, new)]

\* a commit that purges the newest row when the transaction made it obsolete
CommitPurgesObsolete(d, t, written) ==
  LET items == [i \in Ids(d) \cup (written \cap Ids(t)) |->
                  IF i \in written /\ i \in Ids(t) THEN t.items[i] ELSE d.items[i]]
      fts == [i \in (DOMAIN d.fts \ written) \cup (written \cap DOMAIN t.fts) |->
                  IF i \in written THEN t.fts[i] ELSE d.fts[i]]
      n == Len(items)
  IN  IF n > 0 /\ n \in written /\ items[n].status = "obsolete"
        THEN [items |-> SubSeq(items, 1, n - 1), fts |-> FtsDelete(fts, n)]
        ELSE [items |-> items, fts |-> fts]

\* COMMIT: the rows the transaction wrote, and their index entries, replace
\* the committed ones
SqlCommit(d, t, written) ==
  [items |-> [i \in Ids(d) \cup (written \cap Ids(t)) |->
                IF i \in written /\ i \in Ids(t) THEN t.items[i] ELSE d.items[i]],
   fts |-> [i \in (DOMAIN d.fts \ written) \cup (written \cap DOMAIN t.fts) |->
                IF i \in written THEN t.fts[i] ELSE d.fts[i]]]

\* a rollback that lets the statements executed so far take effect
RollbackKeepsWrites(d, t, written) == SqlCommit(d, t, written)

\* _safe_rollback: ROLLBACK discards the working copy
_safe_rollback(d, t, written) == d

\* the query without its conditions on is_canonical and status
SimilarGroupsAnyStatus(d, text) ==
  LET tokens == AlnumTokens(text)
  IN  IF Len(tokens) = 0 THEN {}
      ELSE { <<d.items[i].key, d.items[i].key_layer>> :
               i \in { j \in Ids(d) \cap DOMAIN d.fts :
                         FtsMatch(d.fts[j], FirstThree(tokens)) } }

\* search_similar_key: the (key, key_layer) groups of the canonical final rows
\* whose index entry matches; <<>> tokens give no query at all
SimilarGroups(d, text) ==
  LET tokens == AlnumTokens(text)
  IN  IF Len(tokens) = 0 THEN {}
      ELSE { <<d.items[i].key, d.items[i].key_layer>> :
               i \in { j \in Ids(d) \cap DOMAIN d.fts :
                         /\ FtsMatch(d.fts[j], FirstThree(tokens))
                         /\ d.items[j].is_canonical
                         /\ d.items[j].status = "final" } }

\* suggest_key: the keys it may return.  The top hit is the best bm25 score,
\* which the model leaves open among the matching groups; and the query may
\* raise inside search_similar_key, which then returns [] (SQLite refuses
\* bm25() inside MIN() ... GROUP BY with "unable to use function bm25 in the
\* requested context" once a row reaches the aggregate), so the default
\* bucket is a possible outcome whenever no keyword matches
suggest_key(d, title, content) ==
  LET m == generate_key_by_map(title, content)
      similar == IF _has_enough_info(title) THEN SimilarGroups(d, title) ELSE {}
  IN  IF m # None THEN {m}
      ELSE similar \cup { <<"misc_operation", "operation">> }

(* ---------------- results of a call ---------------- *)

Ok(id) == [state |-> "ok", exc |-> "none", msg |-> "none", id |-> id, at |-> "none",
           rows |-> {}, ret |-> None]

\* the rows a read handler returns
OkRows(rows) == [Ok(0) EXCEPT !.rows = rows]

\* an exception: its class, its message, and the statement that raised it
Raised(exc, msg, at) ==
  [state |-> "error", exc |-> exc, msg |-> msg, id |-> 0, at |-> at, rows |-> {},
   ret |-> None]

\* raise ValueError(f"draft_id={draft_id} が見つかりません")
NotFoundExc == "ValueError"

\* raise ValueError(f"ID={draft_id} は既にfinal化されています") and
\* raise ValueError(f"ID={old_id} は canonical final ではありません")
InvalidStateExc == "ValueError"

\* sqlite3.OperationalError: database is locked, disk I/O error, ...
EngineExc == "OperationalError"

\* sqlite3.IntegrityError: UNIQUE constraint failed
IntegrityExc == "IntegrityError"

\* the rows whose is_canonical a commit turns from TRUE to FALSE
NewlyDemoted(old, new) ==
  {i \in Ids(old) \cap Ids(new) :
     old.items[i].is_canonical /\ ~new.items[i].is_canonical}

\* the write lock is free for connection p (PRAGMA busy_timeout=3000: p waits
\* while it is not, and gives up after the timeout)
LockFree(p) == lock = NoProc

InCall == {p \in Procs : pc[p] \notin {"idle", "done"}}

\* rows that calls in progress may still add
Pending == Cardinality({p \in InCall : call[p].op \in {"insert_draft", "supersede"}})

Init ==
  /\ db = EmptyDB
  /\ lock = NoProc
  /\ pc = [p \in Procs |-> "idle"]
  /\ call = [p \in Procs |-> NoCall]
  /\ loc = [p \in Procs |-> NoLoc]
  /\ tx = [p \in Procs |-> EmptyDB]
  /\ dirty = [p \in Procs |-> {}]
  /\ res = [p \in Procs |-> NoRes]
  /\ demoted = {}

\* the call ends: except/finally have run, the connection is closed
Finish(p, result, committed) ==
  /\ db' = committed
  /\ demoted' = demoted \cup NewlyDemoted(db, committed)
  /\ lock' = IF lock = p THEN NoProc ELSE lock
  /\ tx' = [tx EXCEPT ![p] = EmptyDB]
  /\ dirty' = [dirty EXCEPT ![p] = {}]
  /\ loc' = [loc EXCEPT ![p] = NoLoc]
  /\ res' = [res EXCEPT ![p] = result]
  /\ pc' = [pc EXCEPT ![p] = "done"]
  /\ UNCHANGED call

\* except Exception: self._safe_rollback(conn); raise
Fail(p, exc, msg) ==
  Finish(p, Raised(exc, msg, pc[p]), _safe_rollback(db, tx[p], dirty[p]))

\* a statement moves on to the next one
Step(p, next, t, written, l) ==
  /\ pc' = [pc EXCEPT ![p] = next]
  /\ tx' = [tx EXCEPT ![p] = t]
  /\ dirty' = [dirty EXCEPT ![p] = written]
  /\ loc' = [loc EXCEPT ![p] = l]
  /\ UNCHANGED <<db, lock, call, res, demoted>>

\* Handing a result to the caller touches nothing shared, so it is not
\* interleaved with the statements of the other connection: a connection
\* executes a statement only while no result is waiting to be handed over.
NoneDone == \A q \in Procs : pc[q] # "done"

\* connection p is at statement l
At(p, l) == pc[p] = l /\ NoneDone

(* ---------------- callers ---------------- *)

CallInsertDraft(p) ==
  /\ At(p, "idle")
  /\ Len(db.items) + Pending < MaxRows
  /\ \E x \in DraftInputs, c \in ConvIds :
        call' = [call EXCEPT ![p] =
                   [op |-> "insert_draft", title |-> x[1], content |-> x[2],
                    type |-> x[3], conversation_id |-> c]]
  /\ pc' = [pc EXCEPT ![p] = "suggest"]
  /\ res' = [res EXCEPT ![p] = NoRes]
  /\ UNCHANGED <<db, lock, loc, tx, dirty, demoted>>

CallFinalize(p) ==
  /\ At(p, "idle")
  /\ \E id \in 1..(Len(db.items) + 1) :
        call' = [call EXCEPT ![p] = [op |-> "finalize", id |-> id]]
  /\ pc' = [pc EXCEPT ![p] = "begin"]
  /\ res' = [res EXCEPT ![p] = NoRes]
  /\ UNCHANGED <<db, lock, loc, tx, dirty, demoted>>

CallSupersede(p) ==
  /\ At(p, "idle")
  /\ Len(db.items) + Pending < MaxRows
  /\ \E id \in 1..(Len(db.items) + 1), x \in NewTexts, c \in NewConvIds :
        call' = [call EXCEPT ![p] =
                   [op |-> "supersede", id |-> id, title |-> x[1],
                    content |-> x[2], conversation_id |-> c]]
  /\ pc' = [pc EXCEPT ![p] = "begin"]
  /\ res' = [res EXCEPT ![p] = NoRes]
  /\ UNCHANGED <<db, lock, loc, tx, dirty, demoted>>

\* the caller has the result and may call again
Return(p) ==
  /\ pc[p] = "done"
  /\ pc' = [pc EXCEPT ![p] = "idle"]
  /\ call' = [call EXCEPT ![p] = NoCall]
  /\ res' = [res EXCEPT ![p] = NoRes]
  /\ UNCHANGED <<db, lock, loc, tx, dirty, demoted>>

(* ---------------- MemoryDB.insert_draft ---------------- *)

\* key, key_layer = self.suggest_key(...); confidence = config.judge_confidence(...)
InsertSuggest(p) ==
  /\ At(p, "suggest")
  /\ \E k \in suggest_key(db, call[p].title, call[p].content) :
        Step(p, "insert", tx[p], dirty[p],
             [loc[p] EXCEPT !.key = k[1], !.key_layer = k[2],
                !.confidence = judge_confidence(call[p].title, call[p].content,
                                                call[p].type)])

\* the INSERT with status 'final' and is_canonical TRUE
NewRowCanonical(c, l) ==
  [key |-> l.key, key_layer |-> l.key_layer, title |-> c.title,
   content |-> c.content, type |-> c.type, status |-> "final",
   is_canonical |-> TRUE, supersedes |-> 0, confidence |-> l.confidence,
   conversation_id |-> c.conversation_id]

\* INSERT INTO memory_items (...) VALUES (?, ?, ?, ?, ?, 'draft', ?, ?);
\* is_canonical takes the column default FALSE, supersedes stays NULL
NewDraftRow(c, l) ==
  [key |-> l.key, key_layer |-> l.key_layer, title |-> c.title,
   content |-> c.content, type |-> c.type, status |-> "draft",
   is_canonical |-> FALSE, supersedes |-> 0, confidence |-> l.confidence,
   conversation_id |-> c.conversation_id]

\* conn.execute("BEGIN"); INSERT INTO memory_items ...: the INSERT takes the write lock
InsertStmt(p) ==
  /\ At(p, "insert")
  /\ LockFree(p)
  /\ lock' = p
  /\ pc' = [pc EXCEPT ![p] = "commit"]
  /\ tx' = [tx EXCEPT ![p] = SqlInsert(db, NewDraftRow(call[p], loc[p]))]
  /\ dirty' = [dirty EXCEPT ![p] = {Len(db.items) + 1}]
  /\ loc' = [loc EXCEPT ![p].id = Len(db.items) + 1]
  /\ UNCHANGED <<db, call, res, demoted>>

(* ---------------- MemoryDB.finalize_item ---------------- *)

\* conn.execute("BEGIN"): a deferred transaction, which takes no lock
BeginDeferred(p) ==
  /\ At(p, "begin")
  /\ pc' = [pc EXCEPT ![p] = "select"]
  /\ tx' = [tx EXCEPT ![p] = db]
  /\ UNCHANGED <<db, lock, call, loc, dirty, res, demoted>>

\* conn.execute("BEGIN IMMEDIATE")
BeginImmediate(p) ==
  /\ At(p, "begin")
  /\ LockFree(p)
  /\ lock' = p
  /\ pc' = [pc EXCEPT ![p] = "select"]
  /\ tx' = [tx EXCEPT ![p] = db]
  /\ UNCHANGED <<db, call, loc, dirty, res, demoted>>

\* the lock error swallowed: the transaction goes on without the lock
LockTimeoutIgnored(p) ==
  /\ NoneDone
  /\ pc[p] = "begin"
  /\ lock \notin {NoProc, p}
  /\ pc' = [pc EXCEPT ![p] = "select"]
  /\ tx' = [tx EXCEPT ![p] = db]
  /\ UNCHANGED <<db, lock, call, loc, dirty, res, demoted>>

\* the busy timeout expires while another connection holds the write lock
\* (PRAGMA busy_timeout=3000): BEGIN IMMEDIATE, or the INSERT of insert_draft,
\* raises sqlite3.OperationalError "database is locked"; the method has no
\* loop around it, so the exception goes to except/raise
LockTimeout(p) ==
  /\ NoneDone
  /\ pc[p] \in {"begin", "insert"}
  /\ lock \notin {NoProc, p}
  /\ Fail(p, EngineExc, "database is locked")

\* the check written as: if draft['status'] == 'final': raise
RejectsOnlyFinal(row) == row.status # "final"

\* the check left out
FinalizeNoStateCheck(row) == TRUE

\* if draft['status'] != 'draft': raise
FinalizeStateOk(row) == row.status = "draft"

\* SELECT * FROM memory_items WHERE id=?; the two checks
FinalizeSelect(p) ==
  /\ At(p, "select")
  /\ call[p].op = "finalize"
  /\ LET id == call[p].id IN
       IF id \notin Ids(tx[p])
         THEN Fail(p, NotFoundExc, "not found")
       ELSE IF ~FinalizeStateOk(tx[p].items[id])
         THEN Fail(p, InvalidStateExc, "already final")
       ELSE Step(p, "demote", tx[p], dirty[p],
                 [loc[p] EXCEPT !.key = tx[p].items[id].key,
                                !.key_layer = tx[p].items[id].key_layer,
                                !.id = id])

\* the SELECT without AND is_canonical=TRUE AND status='final'
ExistingOfKey(d, key, key_layer) ==
  {i \in Ids(d) : d.items[i].key = key /\ d.items[i].key_layer = key_layer}

\* SELECT id FROM memory_items WHERE key=? AND key_layer=? AND is_canonical=TRUE
\*   AND status='final'
ExistingCanonical(d, key, key_layer) ==
  {i \in Ids(d) : /\ d.items[i].key = key
                  /\ d.items[i].key_layer = key_layer
                  /\ d.items[i].is_canonical
                  /\ d.items[i].status = "final"}

\* existing = cursor.fetchone(); if existing: UPDATE ... SET status='obsolete',
\* is_canonical=FALSE WHERE id=existing['id']
FinalizeDemote(p) ==
  /\ At(p, "demote")
  /\ call[p].op = "finalize"
  /\ LET found == ExistingCanonical(tx[p], loc[p].key, loc[p].key_layer) IN
       IF found = {}
         THEN Step(p, "promote", tx[p], dirty[p], loc[p])
         ELSE \E e \in found :
                Step(p, "promote", SqlUpdate(tx[p], e, "obsolete", FALSE),
                     dirty[p] \cup {e}, loc[p])

\* UPDATE memory_items SET status='final', is_canonical=TRUE WHERE id=?
FinalizePromote(p) ==
  /\ At(p, "promote")
  /\ call[p].op = "finalize"
  /\ LET t == SqlUpdate(tx[p], call[p].id, "final", TRUE) IN
       IF idx_memory_canonical_key(t)
         THEN Step(p, "commit", t, dirty[p] \cup {call[p].id}, loc[p])
         ELSE Fail(p, IntegrityExc, "UNIQUE constraint failed")

(* ---------------- MemoryDB.supersede_item ---------------- *)

\* the check left out
SupersedeNoStateCheck(row) == TRUE

\* if not old_item['is_canonical'] or old_item['status'] != 'final': raise
SupersedeStateOk(row) == row.is_canonical /\ row.status = "final"

\* an f-string's rendering of a conversation id
Str(c) == IF c = None THEN <<"N","o","n","e">> ELSE c

\* old_item['conversation_id'] or '不明'
OldConv(c) == IF c = None \/ c = <<>> THEN <<"u4E0D","u660E">> ELSE c

\* the note without the two conversation ids
update_note_date_only(date, old_conv_id, conversation_id) ==
  <<"\n","\n","-","-","-","\n","uFF08","u66F4","u65B0","u5C65","u6B74","uFF09","\n">> \o date

\* update_note = f"\n\n---\n（更新履歴）\n{update_date}: 元会話ID={old_conv_id} を会話ID={conversation_id} で更新"
update_note(date, old_conv_id, conversation_id) ==
  <<"\n","\n","-","-","-","\n","uFF08","u66F4","u65B0","u5C65","u6B74","uFF09","\n">> \o date
    \o <<":"," ","u5143","u4F1A","u8A71","I","D","=">> \o old_conv_id
    \o <<" ","u3092","u4F1A","u8A71","I","D","=">> \o Str(conversation_id)
    \o <<" ","u3067","u66F4","u65B0">>

\* SELECT * FROM memory_items WHERE id=?; the two checks; the new confidence
\* and content
SupersedeSelect(p) ==
  /\ At(p, "select")
  /\ call[p].op = "supersede"
  /\ LET id == call[p].id IN
       IF id \notin Ids(tx[p])
         THEN Fail(p, NotFoundExc, "not found")
       ELSE IF ~SupersedeStateOk(tx[p].items[id])
         THEN Fail(p, InvalidStateExc, "not canonical final")
       ELSE \E date \in Dates :
              LET old == tx[p].items[id] IN
              Step(p, "demote", tx[p], dirty[p],
                   [loc[p] EXCEPT
                      !.key = old.key,
                      !.key_layer = old.key_layer,
                      !.type = old.type,
                      !.confidence = judge_confidence(call[p].title, call[p].content,
                                                      old.type),
                      !.content = call[p].content
                                    \o update_note(date, OldConv(old.conversation_id),
                                                   call[p].conversation_id)])

\* UPDATE memory_items SET status='obsolete', is_canonical=FALSE WHERE id=old_id
SupersedeDemote(p) ==
  /\ At(p, "demote")
  /\ call[p].op = "supersede"
  /\ Step(p, "insert_new", SqlUpdate(tx[p], call[p].id, "obsolete", FALSE),
          dirty[p] \cup {call[p].id}, loc[p])

\* the INSERT without the supersedes column
NewFinalRowUnlinked(c, l) ==
  [key |-> l.key, key_layer |-> l.key_layer, title |-> c.title,
   content |-> l.content, type |-> l.type, status |-> "final",
   is_canonical |-> TRUE, supersedes |-> 0, confidence |-> l.confidence,
   conversation_id |-> c.conversation_id]

\* the INSERT with the default key in place of the old row's key
NewFinalRowRekeyed(c, l) ==
  [key |-> "misc_operation", key_layer |-> "operation", title |-> c.title,
   content |-> l.content, type |-> l.type, status |-> "final",
   is_canonical |-> TRUE, supersedes |-> c.id, confidence |-> l.confidence,
   conversation_id |-> c.conversation_id]

NewFinalRow(c, l) ==
  [key |-> l.key, key_layer |-> l.key_layer, title |-> c.title,
   content |-> l.content, type |-> l.type, status |-> "final",
   is_canonical |-> TRUE, supersedes |-> c.id, confidence |-> l.confidence,
   conversation_id |-> c.conversation_id]

\* INSERT INTO memory_items (...) VALUES (?, ?, ?, ?, ?, 'final', TRUE, ?, ?, ?, ...)
SupersedeInsert(p) ==
  /\ At(p, "insert_new")
  /\ LET t == SqlInsert(tx[p], NewFinalRow(call[p], loc[p])) IN
       IF idx_memory_canonical_key(t)
         THEN Step(p, "commit", t, dirty[p] \cup {Len(t.items)},
                   [loc[p] EXCEPT !.id = Len(t.items)])
         ELSE Fail(p, IntegrityExc, "UNIQUE constraint failed")

(* ---------------- the end of a transaction ---------------- *)

\* conn.execute("COMMIT"); return the id
Commit(p) ==
  /\ At(p, "commit")
  /\ Finish(p, Ok(loc[p].id), SqlCommit(db, tx[p], dirty[p]))

\* the statement a transaction is at fails in the storage engine (I/O error,
\* disk full, ...): the exception reaches the except clause
Fault(p) ==
  /\ NoneDone
  /\ pc[p] \in {"select", "demote", "promote", "insert_new", "commit"}
  /\ Fail(p, EngineExc, "engine failure")

Next ==
  \E p \in Procs :
     \/ CallInsertDraft(p)
     \/ CallFinalize(p)
     \/ CallSupersede(p)
     \/ Return(p)
     \/ InsertSuggest(p)
     \/ InsertStmt(p)
     \/ BeginImmediate(p)
     \/ LockTimeout(p)
     \/ FinalizeSelect(p)
     \/ FinalizeDemote(p)
     \/ FinalizePromote(p)
     \/ SupersedeSelect(p)
     \/ SupersedeDemote(p)
     \/ SupersedeInsert(p)
     \/ Commit(p)
     \/ Fault(p)

Spec == Init /\ [][Next]_vars

(* ---------------- two finalize calls racing on one key ---------------- *)

\* a draft as insert_draft stores it for the first input
RaceDraft ==
  LET k == CHOOSE x \in suggest_key(EmptyDB, T_timeout, C_unify) : TRUE
  IN  NewDraftRow([title |-> T_timeout, content |-> C_unify, type |-> "config",
                   conversation_id |-> None],
                  [NoLoc EXCEPT !.key = k[1], !.key_layer = k[2],
                     !.confidence = judge_confidence(T_timeout, C_unify, "config")])

\* committed states with two or three rows of one key, two of them drafts:
\* what insert_draft (and one finalize) leave behind
RaceDBs ==
  LET two == SqlInsert(SqlInsert(EmptyDB, RaceDraft), RaceDraft)
      three == SqlInsert(two, RaceDraft)
  IN  {two, three, SqlUpdate(three, 1, "final", TRUE)}

\* both connections have just called finalize, on two different drafts
RaceInit ==
  /\ db \in RaceDBs
  /\ \E d1, d2 \in {i \in Ids(db) : db.items[i].status = "draft"} :
        /\ d1 # d2
        /\ call = [p \in Procs |->
                     [op |-> "finalize", id |-> IF p = "c1" THEN d1 ELSE d2]]
  /\ lock = NoProc
  /\ pc = [p \in Procs |-> "begin"]
  /\ loc = [p \in Procs |-> NoLoc]
  /\ tx = [p \in Procs |-> EmptyDB]
  /\ dirty = [p \in Procs |-> {}]
  /\ res = [p \in Procs |-> NoRes]
  /\ demoted = {i \in Ids(db) : db.items[i].status = "obsolete"}

\* the caller has the result and makes no further call
Park(p) ==
  /\ pc[p] = "done"
  /\ pc' = [pc EXCEPT ![p] = "returned"]
  /\ UNCHANGED <<db, lock, call, loc, tx, dirty, res, demoted>>

RaceNext ==
  \E p \in Procs :
     \/ BeginImmediate(p)
     \/ LockTimeout(p)
     \/ FinalizeSelect(p)
     \/ FinalizeDemote(p)
     \/ FinalizePromote(p)
     \/ Commit(p)
     \/ Fault(p)
     \/ Park(p)

SpecRace == RaceInit /\ [][RaceNext]_vars

(* ---------------- two supersede calls racing on one row ---------------- *)

\* committed states with one canonical final row: what insert_draft and
\* finalize leave behind, the canonical row alone, beside a draft of its key,
\* or beside the row it replaced
SupersedeRaceDBs ==
  LET one == SqlUpdate(SqlInsert(EmptyDB, RaceDraft), 1, "final", TRUE)
      two == SqlInsert(one, RaceDraft)
  IN  {one, two, SqlUpdate(SqlUpdate(two, 1, "obsolete", FALSE), 2, "final", TRUE)}

\* both connections have just called supersede on the canonical final row
SupersedeRaceInit ==
  /\ db \in SupersedeRaceDBs
  /\ \E old_id \in {i \in Ids(db) : IsCanonicalFinal(db.items[i])} :
     \E x1, x2 \in NewTexts, n1, n2 \in NewConvIds :
        call = [p \in Procs |->
                  IF p = "c1"
                    THEN [op |-> "supersede", id |-> old_id, title |-> x1[1],
                          content |-> x1[2], conversation_id |-> n1]
                    ELSE [op |-> "supersede", id |-> old_id, title |-> x2[1],
                          content |-> x2[2], conversation_id |-> n2]]
  /\ lock = NoProc
  /\ pc = [p \in Procs |-> "begin"]
  /\ loc = [p \in Procs |-> NoLoc]
  /\ tx = [p \in Procs |-> EmptyDB]
  /\ dirty = [p \in Procs |-> {}]
  /\ res = [p \in Procs |-> NoRes]
  /\ demoted = {i \in Ids(db) : db.items[i].status = "obsolete"}

SupersedeRaceNext ==
  \E p \in Procs :
     \/ BeginImmediate(p)
     \/ LockTimeout(p)
     \/ SupersedeSelect(p)
     \/ SupersedeDemote(p)
     \/ SupersedeInsert(p)
     \/ Commit(p)
     \/ Fault(p)
     \/ Park(p)

SpecSupersedeRace == SupersedeRaceInit /\ [][SupersedeRaceNext]_vars

(* ---------------- MemoryDB.suggest_key, tier by tier ---------------- *)

\* titles given to suggest_key
K_kw2 == <<"u69CB","u6210"," ","a","b"," ","x","y">>

K_two == <<"a","b"," ","x","y">>

K_one == <<"a","b">>

K_tls == <<"t","l","s"," ","q","q">>

K_both == <<"u30BF","u30A4","u30E0","u30A2","u30A6","u30C8","u8A2D","u5B9A">>

K_nohit == <<"q","q"," ","z","z">>

K_jp == <<"u79D2","u306B">>

KeyTitles == {<<>>, T_timeout, K_kw2, K_two, K_one, K_tls, K_both, K_nohit, K_jp}

\* contents given to suggest_key
C_timeout30 == <<"u30BF","u30A4","u30E0","u30A2","u30A6","u30C8","u306F","3","0","u79D2">>

C_tokens == <<"x","y"," ","z","z">>

C_watch == <<"u76E3","u8996">>

KeyContents == {<<>>, C_timeout30, C_tokens, C_watch}

\* a draft as insert_draft stores it in an empty table
DraftOf(title, content, type_) ==
  LET k == CHOOSE x \in suggest_key(EmptyDB, title, content) : TRUE
  IN  NewDraftRow([title |-> title, content |-> content, type |-> type_,
                   conversation_id |-> None],
                  [NoLoc EXCEPT !.key = k[1], !.key_layer = k[2],
                     !.confidence = judge_confidence(title, content, type_)])

\* tables the operations leave behind: empty; one canonical row; two
\* canonical rows of different keys; two drafts
KeyDBs ==
  LET a == DraftOf(T_timeout, C_unify, "config")
      b == DraftOf(K_kw2, <<>>, "decision")
      one == SqlInsert(EmptyDB, a)
      two == SqlInsert(one, b)
  IN  { EmptyDB,
        SqlUpdate(one, 1, "final", TRUE),
        SqlUpdate(SqlUpdate(two, 1, "final", TRUE), 2, "final", TRUE),
        two }

\* the value suggest_key returns, the tier that returned it and what became
\* of the similarity query
OkKey(k, tier, similar) == [Ok(0) EXCEPT !.ret = k, !.at = tier, !.msg = similar]

KeyInit ==
  /\ db \in KeyDBs
  /\ \E t \in KeyTitles, c \in KeyContents :
        call = [p \in Procs |->
                  IF p = "c1" THEN [op |-> "suggest_key", title |-> t, content |-> c]
                  ELSE NoCall]
  /\ pc = [p \in Procs |-> IF p = "c1" THEN "map" ELSE "idle"]
  /\ lock = NoProc
  /\ loc = [p \in Procs |-> NoLoc]
  /\ tx = [p \in Procs |-> EmptyDB]
  /\ dirty = [p \in Procs |-> {}]
  /\ res = [p \in Procs |-> NoRes]
  /\ demoted = {}

\* suggest_key moves on to its next tier
KeyStep(p, next, similar) ==
  /\ pc' = [pc EXCEPT ![p] = next]
  /\ loc' = [loc EXCEPT ![p].similar = similar]
  /\ UNCHANGED <<db, lock, call, tx, dirty, res, demoted>>

\* suggest_key returns
KeyReturn(p, k, tier, similar) ==
  /\ pc' = [pc EXCEPT ![p] = "done"]
  /\ res' = [res EXCEPT ![p] = OkKey(k, tier, similar)]
  /\ loc' = [loc EXCEPT ![p] = NoLoc]
  /\ UNCHANGED <<db, lock, call, tx, dirty, demoted>>

\* result = config.generate_key_by_map(title, content); if result: return result
SuggestMap(p) ==
  /\ At(p, "map")
  /\ LET result == generate_key_by_map(call[p].title, call[p].content) IN
       IF result # None
         THEN KeyReturn(p, result, "map", loc[p].similar)
         ELSE KeyStep(p, "gate", loc[p].similar)

\* if self._has_enough_info(title):
SuggestGate(p) ==
  /\ At(p, "gate")
  /\ IF _has_enough_info(call[p].title)
       THEN KeyStep(p, "query", loc[p].similar)
       ELSE KeyStep(p, "misc", loc[p].similar)

\* similar = self.search_similar_key(title, limit=3); if similar: return
\* (similar[0]['key'], similar[0]['key_layer'])
SuggestQuery(p) ==
  /\ At(p, "query")
  /\ LET similar == SimilarGroups(db, call[p].title) IN
       IF similar # {}
         THEN \E top \in similar : KeyReturn(p, top, "similar", "hits")
         ELSE KeyStep(p, "misc", "empty")

\* search_similar_key: except Exception: logger.exception("FTS MATCH error");
\* return [] (the engine raised: a query syntax error, or bm25() refused in
\* the aggregate)
SuggestQueryError(p) ==
  /\ At(p, "query")
  /\ KeyStep(p, "misc", "error")

\* suggest_key without its last return statement
SuggestMiscNone(p) ==
  /\ At(p, "misc")
  /\ KeyReturn(p, None, "misc", loc[p].similar)

\* return ("misc_operation", "operation")
SuggestMisc(p) ==
  /\ At(p, "misc")
  /\ KeyReturn(p, <<"misc_operation", "operation">>, "misc", loc[p].similar)

KeyNext ==
  \E p \in Procs :
     \/ SuggestMap(p)
     \/ SuggestGate(p)
     \/ SuggestQuery(p)
     \/ SuggestQueryError(p)
     \/ SuggestMisc(p)

SpecKey == KeyInit /\ [][KeyNext]_vars

(* ---------------- insert_draft on documented inputs ---------------- *)

\* DBタイムアウト設定
E_timeout_title == <<"D","B","u30BF","u30A4","u30E0","u30A2","u30A6","u30C8","u8A2D","u5B9A">>

\* タイムアウトは30秒に統一します。必ず全サービスで30秒を使用する。
E_timeout_content ==
  <<"u30BF","u30A4","u30E0","u30A2","u30A6","u30C8","u306F","3","0","u79D2","u306B","u7D71","u4E00",
    "u3057","u307E","u3059","u3002","u5FC5","u305A","u5168","u30B5","u30FC","u30D3","u30B9","u3067",
    "3","0","u79D2","u3092","u4F7F","u7528","u3059","u308B","u3002">>

\* ポートは22222に統一します
E_port_title ==
  <<"u30DD","u30FC","u30C8","u306F","2","2","2","2","2","u306B","u7D71","u4E00","u3057","u307E","u3059">>

\* 本番環境でポート22222を使用する
E_port_content ==
  <<"u672C","u756A","u74B0","u5883","u3067","u30DD","u30FC","u30C8","2","2","2","2","2","u3092",
    "u4F7F","u7528","u3059","u308B">>

\* Docker, を推奨
E_docker == << <<"D","o","c","k","e","r">>, <<"u3092","u63A8","u5968">> >>

\* DB, 必ず使用
E_db == << <<"D","B">>, <<"u5FC5","u305A","u4F7F","u7528">> >>

\* DB, abを使用
E_db_ab == << <<"D","B">>, <<"a","b","u3092","u4F7F","u7528">> >>

\* Nginx設定, 必ず推奨
E_nginx == << <<"N","g","i","n","x","u8A2D","u5B9A">>, <<"u5FC5","u305A","u63A8","u5968">> >>

\* ポート, ３０秒に統一 (full-width digits)
E_fullwidth ==
  << <<"u30DD","u30FC","u30C8">>, <<"uFF13","uFF10","u79D2","u306B","u7D71","u4E00">> >>

\* (title, content) pairs given to insert_draft
ExampleTexts ==
  { <<E_timeout_title, E_timeout_content>>, <<E_port_title, E_port_content>>,
    <<T_timeout, C_unify>>, <<T_arch, C_empty>>, <<K_nohit, C_tokens>>,
    <<K_two, C_empty>>, E_docker, E_db, E_db_ab, E_nginx, E_fullwidth }

\* CHECK(type IN ('decision', 'config', 'procedure', 'design_note'))
Types == {"decision", "config", "procedure", "design_note"}

\* (title, content, type) triples given to insert_draft
ExampleInputs == {<<x[1], x[2], t>> : x \in ExampleTexts, t \in Types}

\* one insert_draft call in progress on each of the tables
ExampleInit ==
  /\ db \in KeyDBs
  /\ \E x \in ExampleInputs :
        call = [p \in Procs |->
                  IF p = "c1"
                    THEN [op |-> "insert_draft", title |-> x[1], content |-> x[2],
                          type |-> x[3], conversation_id |-> None]
                    ELSE NoCall]
  /\ pc = [p \in Procs |-> IF p = "c1" THEN "suggest" ELSE "idle"]
  /\ lock = NoProc
  /\ loc = [p \in Procs |-> NoLoc]
  /\ tx = [p \in Procs |-> EmptyDB]
  /\ dirty = [p \in Procs |-> {}]
  /\ res = [p \in Procs |-> NoRes]
  /\ demoted = {}

ExampleNext ==
  \E p \in Procs :
     \/ InsertSuggest(p)
     \/ InsertStmt(p)
     \/ Commit(p)
     \/ Fault(p)
     \/ Return(p)

SpecExample == ExampleInit /\ [][ExampleNext]_vars

(* ---------------- reads beside a transaction in flight ---------------- *)

\* the statements of finalize_item and supersede_item from the first read on
AfterBegin == {"select", "demote", "promote", "insert_new", "commit"}

\* what a connection reads while the lock holder's transaction is open, were
\* the holder's uncommitted writes visible to it
ReadUncommittedView(p) ==
  IF lock \notin {NoProc, p} /\ pc[lock] \in AfterBegin THEN tx[lock] ELSE db

\* PRAGMA journal_mode=WAL: a read sees the last committed state
ReadView(p) == db

ReadKinds == {"canonical", "drafts"}

\* the SELECT of get_recent_context (layer "all"): WHERE is_canonical = TRUE
\* AND status = 'final'; the SELECT of list_drafts: WHERE status = 'draft'
Select(what, d) ==
  {<<i, d.items[i]>> :
     i \in {j \in Ids(d) :
              IF what = "canonical" THEN IsCanonicalFinal(d.items[j])
              ELSE d.items[j].status = "draft"}}

\* get_recent_context, list_drafts: one SELECT on a connection of its own, in
\* autocommit; it takes no write lock and waits for none
Read(p) ==
  /\ At(p, "idle")
  /\ \E what \in ReadKinds :
        /\ call' = [call EXCEPT ![p] = [op |-> "read", what |-> what]]
        /\ res' = [res EXCEPT ![p] = OkRows(Select(what, ReadView(p)))]
  /\ pc' = [pc EXCEPT ![p] = "done"]
  /\ UNCHANGED <<db, lock, loc, tx, dirty, demoted>>

\* the table after insert_draft twice and finalize_item(1): a canonical final
\* row and a draft of the same key
ReadInitDB ==
  SqlUpdate(SqlInsert(SqlInsert(EmptyDB, RaceDraft), RaceDraft), 1, "final", TRUE)

ReadInit ==
  /\ db = ReadInitDB
  /\ lock = NoProc
  /\ pc = [p \in Procs |-> "idle"]
  /\ call = [p \in Procs |-> NoCall]
  /\ loc = [p \in Procs |-> NoLoc]
  /\ tx = [p \in Procs |-> EmptyDB]
  /\ dirty = [p \in Procs |-> {}]
  /\ res = [p \in Procs |-> NoRes]
  /\ demoted = {}

ReadNext ==
  \E p \in Procs :
     \/ CallFinalize(p)
     \/ CallSupersede(p)
     \/ Return(p)
     \/ BeginImmediate(p)
     \/ LockTimeout(p)
     \/ FinalizeSelect(p)
     \/ FinalizeDemote(p)
     \/ FinalizePromote(p)
     \/ SupersedeSelect(p)
     \/ SupersedeDemote(p)
     \/ SupersedeInsert(p)
     \/ Commit(p)
     \/ Fault(p)
     \/ Read(p)

SpecRead == ReadInit /\ [][ReadNext]_vars

(* ---------------- MemoryDB.search_similar_key, statement by statement ---------------- *)

K_four == <<"a","b"," ","x","y"," ","q","q"," ","z","z">>

K_upper == <<"A","B"," ","u79D2">>

K_zz == <<"z","z">>

K_single == <<"a"," ","u79D2"," ","b">>

\* texts given to search_similar_key
SearchTexts ==
  {<<>>, K_jp, K_single, K_one, K_upper, K_two, K_nohit, K_four, T_timeout, K_zz}

\* LIMIT ?
SearchLimits == {1, 2, 3}

\* tables the operations leave behind, of five rows: "タイムアウト ab"
\* (timeout_and_retry_policy), "構成 ab xy" (architecture_overview), "tls qq"
\* (security_baseline), "qq zz" and "zz" (both misc_operation); rows 1 and 2
\* canonical final, row 3 and row 5 a draft or canonical final, row 4
\* canonical final or obsolete
SearchDBs ==
  LET r1 == DraftOf(T_timeout, C_unify, "config")
      r2 == DraftOf(K_kw2, C_empty, "decision")
      r3 == DraftOf(K_tls, C_empty, "decision")
      r4 == DraftOf(K_nohit, C_tokens, "procedure")
      r5 == DraftOf(K_zz, C_empty, "decision")
      all == SqlInsert(SqlInsert(SqlInsert(SqlInsert(SqlInsert(EmptyDB, r1), r2), r3), r4), r5)
      two == SqlUpdate(SqlUpdate(all, 1, "final", TRUE), 2, "final", TRUE)
      four == SqlUpdate(SqlUpdate(two, 3, "final", TRUE), 4, "final", TRUE)
  IN  { EmptyDB,
        all,
        SqlUpdate(two, 4, "obsolete", FALSE),
        SqlUpdate(SqlUpdate(two, 4, "obsolete", FALSE), 5, "final", TRUE),
        four }

\* search_similar_key is called on connection c1
SearchInit ==
  /\ db \in SearchDBs
  /\ \E t \in SearchTexts, n \in SearchLimits :
        call = [p \in Procs |->
                  IF p = "c1" THEN [op |-> "search_similar_key", text |-> t, limit |-> n]
                  ELSE NoCall]
  /\ pc = [p \in Procs |-> IF p = "c1" THEN "tokens" ELSE "idle"]
  /\ lock = NoProc
  /\ loc = [p \in Procs |-> NoLoc]
  /\ tx = [p \in Procs |-> EmptyDB]
  /\ dirty = [p \in Procs |-> {}]
  /\ res = [p \in Procs |-> NoRes]
  /\ demoted = {}

\* the list search_similar_key returns (the score of an entry is left out),
\* the statement that returned it and what became of the query
OkList(list, at, outcome) == [Ok(0) EXCEPT !.ret = list, !.at = at, !.msg = outcome]

SearchReturn(p, list, outcome) ==
  /\ pc' = [pc EXCEPT ![p] = "done"]
  /\ res' = [res EXCEPT ![p] = OkList(list, pc[p], outcome)]
  /\ UNCHANGED <<db, lock, call, loc, tx, dirty, demoted>>

\* the token test left out: the query is built and executed whatever the tokens
SearchTokensNoSkip(p) ==
  /\ At(p, "tokens")
  /\ call[p].op = "search_similar_key"
  /\ pc' = [pc EXCEPT ![p] = "connect"]
  /\ UNCHANGED <<db, lock, call, loc, tx, dirty, res, demoted>>

\* tokens = re.findall(...); tokens = [t for t in tokens if len(t) >= 2];
\* if not tokens: return []
SearchTokens(p) ==
  /\ At(p, "tokens")
  /\ call[p].op = "search_similar_key"
  /\ IF AlnumTokens(call[p].text) = <<>>
       THEN SearchReturn(p, <<>>, "skipped")
       ELSE /\ pc' = [pc EXCEPT ![p] = "connect"]
            /\ UNCHANGED <<db, lock, call, loc, tx, dirty, res, demoted>>

\* conn = self._get_connection(): the first access to the database file
SearchConnect(p) ==
  /\ At(p, "connect")
  /\ pc' = [pc EXCEPT ![p] = "execute"]
  /\ UNCHANGED <<db, lock, call, loc, tx, dirty, res, demoted>>

\* the lists of n distinct members of a set, n at most its size
Arrangements(S, n) ==
  {q \in [1..n -> S] : \A i, j \in 1..n : q[i] = q[j] => i = j}

\* ORDER BY score ASC LIMIT ?: the best groups, at most limit of them; which
\* group scores best is left open
TopGroups(groups, limit) ==
  Arrangements(groups, IF Cardinality(groups) < limit THEN Cardinality(groups) ELSE limit)

\* cursor.execute(SELECT ... MATCH ? ... GROUP BY m.key, m.key_layer ORDER BY
\* score ASC LIMIT ?); results = [...]; return results
SearchExecute(p) ==
  /\ At(p, "execute")
  /\ \E list \in TopGroups(SimilarGroups(ReadView(p), call[p].text), call[p].limit) :
        SearchReturn(p, list, IF list = <<>> THEN "empty" ELSE "hits")

\* except Exception: logger.exception("FTS MATCH error"); return []
SearchError(p) ==
  /\ At(p, "execute")
  /\ SearchReturn(p, <<>>, "error")

\* search_similar_key on one connection, finalize_item on the other
SearchNext ==
  \E p \in Procs :
     \/ SearchTokens(p)
     \/ SearchConnect(p)
     \/ SearchExecute(p)
     \/ SearchError(p)
     \/ CallFinalize(p)
     \/ BeginImmediate(p)
     \/ FinalizeSelect(p)
     \/ FinalizeDemote(p)
     \/ FinalizePromote(p)
     \/ Commit(p)
     \/ Fault(p)
     \/ Return(p)

SpecSearch == SearchInit /\ [][SearchNext]_vars

(* ---------------- extract_suggestions, turn by turn ---------------- *)

\* assistant: ポート番号は22222に統一します。本番環境では全サービスでポート22222を使用する必要があります。
A_port ==
  [role |-> "assistant",
   content |->
    <<"u30DD","u30FC","u30C8","u756A","u53F7","u306F","2","2","2","2","2","u306B","u7D71",
    "u4E00","u3057","u307E","u3059","u3002","u672C","u756A","u74B0","u5883","u3067",
    "u306F","u5168","u30B5","u30FC","u30D3","u30B9","u3067","u30DD","u30FC","u30C8","2",
    "2","2","2","2","u3092","u4F7F","u7528","u3059","u308B","u5FC5","u8981","u304C",
    "u3042","u308A","u307E","u3059","u3002">>]

\* assistant: タイムアウトは30秒に設定することを推奨します。API呼び出しは30秒でタイムアウトします。
A_recommend ==
  [role |-> "assistant",
   content |->
    <<"u30BF","u30A4","u30E0","u30A2","u30A6","u30C8","u306F","3","0","u79D2","u306B",
    "u8A2D","u5B9A","u3059","u308B","u3053","u3068","u3092","u63A8","u5968","u3057",
    "u307E","u3059","u3002","A","P","I","u547C","u3073","u51FA","u3057","u306F","3","0",
    "u79D2","u3067","u30BF","u30A4","u30E0","u30A2","u30A6","u30C8","u3057","u307E",
    "u3059","u3002">>]

\* user: ポート番号について教えてください
U_ask ==
  [role |-> "user",
   content |->
    <<"u30DD","u30FC","u30C8","u756A","u53F7","u306B","u3064","u3044","u3066","u6559",
    "u3048","u3066","u304F","u3060","u3055","u3044">>]

\* user: 必ずポート8080を使用すること
U_port ==
  [role |-> "user",
   content |->
    <<"u5FC5","u305A","u30DD","u30FC","u30C8","8","0","8","0","u3092","u4F7F","u7528",
    "u3059","u308B","u3053","u3068">>]

\* assistant: 了解しました
A_plain ==
  [role |-> "assistant",
   content |->
    <<"u4E86","u89E3","u3057","u307E","u3057","u305F">>]

\* assistant: ポート番号は22223に統一します。
A_port2 ==
  [role |-> "assistant",
   content |->
    <<"u30DD","u30FC","u30C8","u756A","u53F7","u306F","2","2","2","2","3","u306B","u7D71",
    "u4E00","u3057","u307E","u3059","u3002">>]

\* assistant: ポートは22222222に統一します
A_digits ==
  [role |-> "assistant",
   content |->
    <<"u30DD","u30FC","u30C8","u306F","2","2","2","2","2","2","2","2","u306B","u7D71",
    "u4E00","u3057","u307E","u3059">>]

\* assistant: ポートは22222223に統一します
A_digits2 ==
  [role |-> "assistant",
   content |->
    <<"u30DD","u30FC","u30C8","u306F","2","2","2","2","2","2","2","3","u306B","u7D71",
    "u4E00","u3057","u307E","u3059">>]

\* assistant: Nginxのルール
A_rule ==
  [role |-> "assistant",
   content |->
    <<"N","g","i","n","x","u306E","u30EB","u30FC","u30EB">>]

\* assistant: 実行フローの手順は必ずMakefileで実施
A_flow ==
  [role |-> "assistant",
   content |->
    <<"u5B9F","u884C","u30D5","u30ED","u30FC","u306E","u624B","u9806","u306F","u5FC5",
    "u305A","M","a","k","e","f","i","l","e","u3067","u5B9F","u65BD">>]

\* assistant: 原則として方針は禁止ではない Docker
A_note ==
  [role |-> "assistant",
   content |->
    <<"u539F","u5247","u3068","u3057","u3066","u65B9","u91DD","u306F","u7981","u6B62",
    "u3067","u306F","u306A","u3044"," ","D","o","c","k","e","r">>]

\* assistant: \n  設定の手順を使用すべき 1234\n
A_tie ==
  [role |-> "assistant",
   content |->
    <<"\n"," "," ","u8A2D","u5B9A","u306E","u624B","u9806","u3092","u4F7F","u7528",
    "u3059","u3079","u304D"," ","1","2","3","4","\n">>]

\* assistant: 設定の手順にすべき 1234
A_tie2 ==
  [role |-> "assistant",
   content |->
    <<"u8A2D","u5B9A","u306E","u624B","u9806","u306B","u3059","u3079","u304D"," ","1","2",
    "3","4">>]

\* assistant: 手順は必ず守ること 1234
A_tie3 ==
  [role |-> "assistant",
   content |->
    <<"u624B","u9806","u306F","u5FC5","u305A","u5B88","u308B","u3053","u3068"," ","1","2",
    "3","4">>]

\* assistant: 。Redis1234567を使用する
A_empty ==
  [role |-> "assistant",
   content |->
    <<"u3002","R","e","d","i","s","1","2","3","4","5","6","7","u3092","u4F7F","u7528",
    "u3059","u308B">>]

\* assistant: Apache11を使用する
A_k1 ==
  [role |-> "assistant",
   content |->
    <<"A","p","a","c","h","e","1","1","u3092","u4F7F","u7528","u3059","u308B">>]

\* assistant: Bind2222を使用する
A_k2 ==
  [role |-> "assistant",
   content |->
    <<"B","i","n","d","2","2","2","2","u3092","u4F7F","u7528","u3059","u308B">>]

\* assistant: Chrony33を使用する
A_k3 ==
  [role |-> "assistant",
   content |->
    <<"C","h","r","o","n","y","3","3","u3092","u4F7F","u7528","u3059","u308B">>]

\* assistant: Dovecot4を使用する
A_k4 ==
  [role |-> "assistant",
   content |->
    <<"D","o","v","e","c","o","t","4","u3092","u4F7F","u7528","u3059","u308B">>]

\* assistant: Exim5555を使用する
A_k5 ==
  [role |-> "assistant",
   content |->
    <<"E","x","i","m","5","5","5","5","u3092","u4F7F","u7528","u3059","u308B">>]

\* assistant: Fluentd6を使用する
A_k6 ==
  [role |-> "assistant",
   content |->
    <<"F","l","u","e","n","t","d","6","u3092","u4F7F","u7528","u3059","u308B">>]

\* assistant: Zabbix7を使用する, then あ 500 times
A_long ==
  [role |-> "assistant",
   content |-> <<"Z","a","b","b","i","x","7","u3092","u4F7F","u7528","u3059","u308B">> \o [i \in 1..500 |-> "u3042"]]

\* the turns a conversation log is made of
Turns ==
  {A_port, A_recommend, U_ask, U_port, A_plain, A_port2, A_digits,
   A_digits2, A_rule, A_flow, A_note, A_tie, A_tie2, A_tie3,
   A_empty, A_k1, A_k2, A_k3, A_k4, A_k5, A_k6,
   A_long}

\* a log that holds more candidates than MAX_AUTO_SUGGESTIONS
L_cap == <<U_port, A_k1, A_k2, A_recommend, A_k3, A_k4, A_k5, A_k6, A_port>>

\* a log of candidates whose titles are close to one another
L_dup == <<A_port, A_digits, A_port2, A_digits2, A_tie, A_port>>

\* conversation logs: every log of at most two turns, and the two above
ExtractLogs ==
  {<<>>} \cup {<<a>> : a \in Turns} \cup {<<a, b>> : a, b \in Turns} \cup {L_cap, L_dup}

\* extract_suggestions is called on connection c1
ExtractInit ==
  /\ db = EmptyDB
  /\ \E log \in ExtractLogs :
        /\ call = [p \in Procs |->
                     IF p = "c1" THEN [op |-> "extract_suggestions", log |-> log]
                     ELSE NoCall]
        /\ pc = [p \in Procs |->
                   IF p # "c1" THEN "idle" ELSE IF log = <<>> THEN "return" ELSE "turn"]
  /\ lock = NoProc
  /\ loc = [p \in Procs |-> IF p = "c1" THEN [NoLoc EXCEPT !.turn = 1] ELSE NoLoc]
  /\ tx = [p \in Procs |-> EmptyDB]
  /\ dirty = [p \in Procs |-> {}]
  /\ res = [p \in Procs |-> NoRes]
  /\ demoted = {}

\* the turn the for loop is at
CurrentTurn(p) == call[p].log[loc[p].turn]

\* continue, or the end of the for loop: the next turn, if there is one
NextTurn(p, suggestions) ==
  /\ pc' = [pc EXCEPT ![p] =
              IF loc[p].turn + 1 > Len(call[p].log) THEN "return" ELSE "turn"]
  /\ loc' = [loc EXCEPT ![p] =
               [NoLoc EXCEPT !.turn = loc[p].turn + 1, !.suggestions = suggestions]]
  /\ UNCHANGED <<db, lock, call, tx, dirty, res, demoted>>

\* the test on the role left out
IsCandidateTurnAnyRole(turn) == _has_decision_pattern(turn.content)

\* if turn.get('role') != 'assistant': continue;
\* if not _has_decision_pattern(content): continue
IsCandidateTurn(turn) ==
  turn.role = "assistant" /\ _has_decision_pattern(turn.content)

\* title and extracted_content are both non-empty
Extractable(turn) ==
  _extract_title(turn.content) # <<>> /\ _extract_content(turn.content) # <<>>

\* the three continue statements at the head of the loop body
ExtractSkipTurn(p) ==
  /\ At(p, "turn")
  /\ ~IsCandidateTurn(CurrentTurn(p)) \/ ~Extractable(CurrentTurn(p))
  /\ NextTurn(p, loc[p].suggestions)

\* title = _extract_title(content); extracted_content = _extract_content(content)
ExtractCandidate(p) ==
  /\ At(p, "turn")
  /\ IsCandidateTurn(CurrentTurn(p)) /\ Extractable(CurrentTurn(p))
  /\ pc' = [pc EXCEPT ![p] = "classify"]
  /\ loc' = [loc EXCEPT ![p].title = _extract_title(CurrentTurn(p).content),
                        ![p].content = _extract_content(CurrentTurn(p).content)]
  /\ UNCHANGED <<db, lock, call, tx, dirty, res, demoted>>

\* type_ = judge_type(title, extracted_content);
\* confidence = config.judge_confidence(title, extracted_content, type_)
ExtractClassify(p) ==
  /\ At(p, "classify")
  /\ LET type_ == judge_type(loc[p].title, loc[p].content) IN
       loc' = [loc EXCEPT ![p].type = type_,
                          ![p].confidence =
                             judge_confidence(loc[p].title, loc[p].content, type_)]
  /\ pc' = [pc EXCEPT ![p] = "filter"]
  /\ UNCHANGED <<db, lock, call, tx, dirty, res, demoted>>

\* if confidence != 'HIGH': continue; if _is_duplicate(...): continue
ExtractDiscard(p) ==
  /\ At(p, "filter")
  /\ \/ loc[p].confidence # "HIGH"
     \/ _is_duplicate(loc[p].title, loc[p].content, loc[p].suggestions)
  /\ NextTurn(p, loc[p].suggestions)

\* suggestions.append({...}); if len(suggestions) >= config.MAX_AUTO_SUGGESTIONS: break
ExtractKeep(p) ==
  /\ At(p, "filter")
  /\ loc[p].confidence = "HIGH"
  /\ ~_is_duplicate(loc[p].title, loc[p].content, loc[p].suggestions)
  /\ LET suggestions == Append(loc[p].suggestions,
                               [title |-> loc[p].title, content |-> loc[p].content,
                                type |-> loc[p].type, confidence |-> loc[p].confidence])
     IN  IF Len(suggestions) >= MAX_AUTO_SUGGESTIONS
           THEN /\ pc' = [pc EXCEPT ![p] = "return"]
                /\ loc' = [loc EXCEPT ![p].suggestions = suggestions]
                /\ UNCHANGED <<db, lock, call, tx, dirty, res, demoted>>
           ELSE NextTurn(p, suggestions)

\* return suggestions
ExtractReturn(p) ==
  /\ At(p, "return")
  /\ pc' = [pc EXCEPT ![p] = "done"]
  /\ res' = [res EXCEPT ![p] = OkList(loc[p].suggestions, "return", "none")]
  /\ loc' = [loc EXCEPT ![p] = NoLoc]
  /\ UNCHANGED <<db, lock, call, tx, dirty, demoted>>

ExtractNext ==
  \E p \in Procs :
     \/ ExtractSkipTurn(p)
     \/ ExtractCandidate(p)
     \/ ExtractClassify(p)
     \/ ExtractDiscard(p)
     \/ ExtractKeep(p)
     \/ ExtractReturn(p)

SpecExtract == ExtractInit /\ [][ExtractNext]_vars

(* ---------------- src/server.py: the tools ---------------- *)

\* the content of a listed item is cut at 200 characters
ShownMax == 200

\* row[4][:200] + "..." if len(row[4]) > 200 else row[4]
ContentShown(content) ==
  IF Len(content) > ShownMax THEN Take(content, ShownMax) \o <<".", ".", ".">> ELSE content

\* one entry of "items" or "drafts"
Item(id, row) ==
  [id |-> id, key |-> row.key, key_layer |-> row.key_layer, title |-> row.title,
   content |-> ContentShown(row.content), type |-> row.type,
   confidence |-> row.confidence]

\* json.dumps(result): the text of a JSON object with a "status" member
JsonResult(status, body) == [format |-> "json", status |-> status, body |-> body]

\* TextContent(type="text", text=f"..."): a bare message
PlainText(prefix, message) == [format |-> "text", text |-> <<prefix, message>>]

\* title LIKE '%query%': the query occurs in the text, ASCII letter case
\* aside (for a query without the wildcards % and _)
Like(text, query) == Contains(Lower(text), Lower(query))

\* queries, type filters, layers, limits and names given to the tools
SearchQueries == {<<>>, <<"A", "B">>, <<"u79D2">>}

\* args.get("type_filter") when the argument is absent (falsy, as "" is)
NoFilter == ""

TypeFilters == {NoFilter, "config"}

Layers == {"constitution", "operation", "all"}

ToolLimits == {1, 10}

UnknownTools == {"memory_delete"}

\* ORDER BY ... DESC LIMIT ?: limit of the rows, or all of them when they are
\* fewer; the timestamps that order them are not modelled
Limited(ids, limit) ==
  {S \in SUBSET ids :
     Cardinality(S) = IF Cardinality(ids) < limit THEN Cardinality(ids) ELSE limit}

\* a tool that answers from one read, or from none, returns
ToolReturn(p, c, response) ==
  /\ call' = [call EXCEPT ![p] = c]
  /\ res' = [res EXCEPT ![p] = [Ok(0) EXCEPT !.ret = response]]
  /\ pc' = [pc EXCEPT ![p] = "done"]
  /\ UNCHANGED <<db, lock, loc, tx, dirty, demoted>>

\* WHERE is_canonical = TRUE AND status = 'final' [AND type = ?]
\*   AND (title LIKE ? OR content LIKE ?)
SearchWhere(row, query, type_filter) ==
  /\ IsCanonicalFinal(row)
  /\ type_filter = NoFilter \/ row.type = type_filter
  /\ Like(row.title, query) \/ Like(row.content, query)

\* memory_search
ToolSearch(p) ==
  /\ At(p, "idle")
  /\ \E query \in SearchQueries, type_filter \in TypeFilters, limit \in ToolLimits :
        LET d == ReadView(p)
            ids == {i \in Ids(d) : SearchWhere(d.items[i], query, type_filter)}
        IN  \E S \in Limited(ids, limit) :
               ToolReturn(p, [op |-> "memory_search", query |-> query,
                              type_filter |-> type_filter, limit |-> limit],
                          JsonResult("success", {Item(i, d.items[i]) : i \in S}))

\* the WHERE clause without its condition on key_layer
RecentContextWhereAnyLayer(row, layer) == IsCanonicalFinal(row)

\* WHERE is_canonical = TRUE AND status = 'final' [AND key_layer = ?]
RecentContextWhere(row, layer) ==
  IsCanonicalFinal(row) /\ (layer = "all" \/ row.key_layer = layer)

\* memory_get_recent_context
ToolRecentContext(p) ==
  /\ At(p, "idle")
  /\ \E layer \in Layers, limit \in ToolLimits :
        LET d == ReadView(p)
            ids == {i \in Ids(d) : RecentContextWhere(d.items[i], layer)}
        IN  \E S \in Limited(ids, limit) :
               ToolReturn(p, [op |-> "memory_get_recent_context", layer |-> layer,
                              limit |-> limit],
                          JsonResult("success", {Item(i, d.items[i]) : i \in S}))

\* memory_list_drafts
ToolListDrafts(p) ==
  /\ At(p, "idle")
  /\ LET d == ReadView(p) IN
       ToolReturn(p, [op |-> "memory_list_drafts"],
                  JsonResult("success",
                             {Item(i, d.items[i]) :
                                i \in {j \in Ids(d) : d.items[j].status = "draft"}}))

\* the conversation id of the process: assigned once, when the module is
\* loaded, and by no statement after that
current_conversation_id == None

\* the user turn that asks about the timeout
U_timeout ==
  [role |-> "user",
   content |->
    <<"u30BF","u30A4","u30E0","u30A2","u30A6","u30C8","u306F","u3069","u3046","u3057",
      "u307E","u3059","u304B","uFF1F">>]

\* the conversation that the extractor's own run logs, and its id
test_conversation == <<U_ask, A_port, U_timeout, A_recommend>>

test_conv_id == <<"t","e","s","t","_","c","o","n","v","_","0","0","1">>

\* the files of LOG_DIR: save_conversation_turn appends a turn to the file of
\* its conversation id; the tools never call it, the extractor's own run does
LogFiles == [conversation_id \in {test_conv_id} |-> test_conversation]

\* the turns of the conversation's file, [] when there is no such file
load_conversation_log(conversation_id) ==
  IF conversation_id \in DOMAIN LogFiles THEN LogFiles[conversation_id] ELSE <<>>

\* the for loop of extract_suggestions from turn i on, suggestions so far given
RECURSIVE ExtractLoop(_, _, _)
ExtractLoop(log, i, suggestions) ==
  IF i > Len(log) THEN suggestions
  ELSE IF ~IsCandidateTurn(log[i]) \/ ~Extractable(log[i])
    THEN ExtractLoop(log, i + 1, suggestions)
  ELSE LET title == _extract_title(log[i].content)
           extracted_content == _extract_content(log[i].content)
           type_ == judge_type(title, extracted_content)
           confidence == judge_confidence(title, extracted_content, type_)
           kept == Append(suggestions,
                          [title |-> title, content |-> extracted_content,
                           type |-> type_, confidence |-> confidence])
       IN  IF confidence # "HIGH" \/ _is_duplicate(title, extracted_content, suggestions)
             THEN ExtractLoop(log, i + 1, suggestions)
           ELSE IF Len(kept) >= MAX_AUTO_SUGGESTIONS THEN kept
           ELSE ExtractLoop(log, i + 1, kept)

\* extract_suggestions as one call
extract_suggestions(conversation_log) == ExtractLoop(conversation_log, 1, <<>>)

\* memory_list_suggestions: no suggestions while there is no conversation id,
\* otherwise what the extractor derives from the conversation's log
ToolListSuggestions(p) ==
  /\ At(p, "idle")
  /\ ToolReturn(p, [op |-> "memory_list_suggestions"],
                JsonResult("success",
                           IF current_conversation_id = None THEN <<>>
                           ELSE extract_suggestions(
                                  load_conversation_log(current_conversation_id))))

\* memory_open_source: the item's summary, or "status": "error" when no row
\* has the id
ToolOpenSource(p) ==
  /\ At(p, "idle")
  /\ \E id \in 1..(Len(db.items) + 1) :
        LET d == ReadView(p) IN
          ToolReturn(p, [op |-> "memory_open_source", id |-> id],
                     IF id \in Ids(d)
                       THEN JsonResult("success",
                                       [memory_id |-> id, key |-> d.items[id].key,
                                        title |-> d.items[id].title, sources |-> <<>>])
                       ELSE JsonResult("error", "not found"))

\* else: return [TextContent(type="text", text=f"Unknown tool: {name}")]
ToolUnknown(p) ==
  /\ At(p, "idle")
  /\ \E name \in UnknownTools :
        ToolReturn(p, [op |-> "unknown", name |-> name],
                   PlainText("Unknown tool: ", name))

\* the tools that write: memory_save_draft, memory_finalize, memory_supersede
WriteOps == {"insert_draft", "finalize", "supersede"}

\* what call_tool hands to the client once the call of connection p is over:
\* the handler's result, or, for an exception of the store, the text
\* "エラー: " followed by its message
ToolResponse(p) ==
  IF call[p].op \notin WriteOps THEN res[p].ret
  ELSE IF res[p].state = "ok" THEN JsonResult("success", res[p].id)
  ELSE PlainText("error: ", res[p].msg)

\* the table after two memory_save_draft and one memory_finalize: a canonical
\* final row of the operation layer and a draft of the constitution layer
ServerInitDB ==
  SqlInsert(SqlUpdate(SqlInsert(EmptyDB, RaceDraft), 1, "final", TRUE),
            DraftOf(T_arch, C_empty, "decision"))

ServerInit ==
  /\ db = ServerInitDB
  /\ lock = NoProc
  /\ pc = [p \in Procs |-> "idle"]
  /\ call = [p \in Procs |-> NoCall]
  /\ loc = [p \in Procs |-> NoLoc]
  /\ tx = [p \in Procs |-> EmptyDB]
  /\ dirty = [p \in Procs |-> {}]
  /\ res = [p \in Procs |-> NoRes]
  /\ demoted = {}

\* two server processes on one database file, each answering its client
ServerNext ==
  \E p \in Procs :
     \/ CallInsertDraft(p)
     \/ CallFinalize(p)
     \/ CallSupersede(p)
     \/ Return(p)
     \/ InsertSuggest(p)
     \/ InsertStmt(p)
     \/ BeginImmediate(p)
     \/ LockTimeout(p)
     \/ FinalizeSelect(p)
     \/ FinalizeDemote(p)
     \/ FinalizePromote(p)
     \/ SupersedeSelect(p)
     \/ SupersedeDemote(p)
     \/ SupersedeInsert(p)
     \/ Commit(p)
     \/ Fault(p)
     \/ ToolSearch(p)
     \/ ToolRecentContext(p)
     \/ ToolListDrafts(p)
     \/ ToolListSuggestions(p)
     \/ ToolOpenSource(p)
     \/ ToolUnknown(p)

SpecServer == ServerInit /\ [][ServerNext]_vars

(* ---------------- properties ---------------- *)

CanonicalFinalIds(d, key, key_layer) ==
  {i \in Ids(d) : /\ d.items[i].key = key /\ d.items[i].key_layer = key_layer
                  /\ IsCanonicalFinal(d.items[i])}

KeyPairs(d) == {<<d.items[i].key, d.items[i].key_layer>> : i \in Ids(d)}

SameKey(r1, r2) == r1.key = r2.key /\ r1.key_layer = r2.key_layer

AtMostOneCanonical(d) ==
  \A k \in KeyPairs(d) : Cardinality(CanonicalFinalIds(d, k[1], k[2])) <= 1

\* the step in which connection p's call ends
Finishes(p) == pc[p] # "done" /\ pc'[p] = "done"

Succeeds(p, op) == Finishes(p) /\ call[p].op = op /\ res'[p].state = "ok"

Fails(p, op) == Finishes(p) /\ call[p].op = op /\ res'[p].state = "error"

Demote(row) == [row EXCEPT !.status = "obsolete", !.is_canonical = FALSE]

Promote(row) == [row EXCEPT !.status = "final", !.is_canonical = TRUE]

\* C1: in every committed state, whatever calls succeeded or failed, each
\* (key, key_layer) has at most one row with is_canonical = TRUE and
\* status = 'final'
C1_CanonicalUnique == AtMostOneCanonical(db)

\* C1 witness: a key with a canonical final row beside an obsolete row and a
\* draft of the same key
C1_Witness ==
  \E i, j, k \in Ids(db) :
     /\ IsCanonicalFinal(db.items[i])
     /\ db.items[j].status = "obsolete" /\ SameKey(db.items[i], db.items[j])
     /\ db.items[k].status = "draft" /\ SameKey(db.items[i], db.items[k])

\* C2: two finalize calls started together on two different drafts of one
\* (key, key_layer): no committed state, hence nothing a reader can observe,
\* holds two canonical final rows, and once both have returned, one of them
\* having succeeded, exactly one of the two rows is canonical final
C2_RaceOneCanonical ==
  /\ AtMostOneCanonical(db)
  /\ ( /\ \A p \in Procs : pc[p] = "returned"
       /\ \E p \in Procs : res[p].state = "ok" )
     => Cardinality({p \in Procs : IsCanonicalFinal(db.items[call[p].id])}) = 1

\* C2 witness: both calls returned successfully; the row finalized first is
\* obsolete, the other canonical
C2_Witness ==
  /\ \A p \in Procs : pc[p] = "returned" /\ res[p].state = "ok"
  /\ \E p, q \in Procs :
        /\ IsCanonicalFinal(db.items[call[p].id])
        /\ db.items[call[q].id].status = "obsolete"

\* C3: a finalize or supersede that is at, or past, its first read (the
\* target row, then the uniqueness check) holds the write lock, so no two
\* transactions are past BEGIN IMMEDIATE at once
C3_LockBeforeRead ==
  \A p \in Procs :
     (call[p].op \in {"finalize", "supersede"} /\ pc[p] \in AfterBegin)
       => /\ lock = p
          /\ \A q \in Procs \ {p} :
                ~(call[q].op \in {"finalize", "supersede"} /\ pc[q] \in AfterBegin)

\* C3 witness: one finalize has read "no existing canonical" and is about to
\* promote its draft while a finalize of another draft of the same key waits
\* at BEGIN IMMEDIATE
C3_Witness ==
  \E p, q \in Procs :
     /\ p # q
     /\ call[p].op = "finalize" /\ pc[p] = "promote"
     /\ call[q].op = "finalize" /\ pc[q] = "begin"
     /\ call[p].id # call[q].id
     /\ call[p].id \in Ids(db) /\ call[q].id \in Ids(db)
     /\ db.items[call[p].id].status = "draft"
     /\ db.items[call[q].id].status = "draft"
     /\ SameKey(db.items[call[p].id], db.items[call[q].id])
     /\ CanonicalFinalIds(db, db.items[call[p].id].key,
                          db.items[call[p].id].key_layer) = {}

\* C4: a row's status only moves draft -> final or final -> obsolete (so
\* obsolete is terminal, nothing returns to draft, no draft becomes obsolete),
\* no row disappears, and a row whose is_canonical went back to FALSE is never
\* canonical again
C4_StatusTransitions ==
  [][ /\ \A i \in Ids(db) :
            /\ i \in Ids(db')
            /\ \/ db'.items[i].status = db.items[i].status
               \/ db.items[i].status = "draft" /\ db'.items[i].status = "final"
               \/ db.items[i].status = "final" /\ db'.items[i].status = "obsolete"
      /\ \A i \in demoted' : ~db'.items[i].is_canonical ]_vars

\* C4 witness: a demoted, obsolete row beside the row finalized after it
C4_Witness ==
  \E i, j \in Ids(db) :
     /\ i \in demoted /\ db.items[i].status = "obsolete"
     /\ db.items[j].status = "final" /\ db.items[j].supersedes = 0
     /\ SameKey(db.items[i], db.items[j])

\* C5: the committed state changes only in the commit step of a successful
\* call, and the commit of a successful finalize(draft_id) makes the target
\* final and canonical, makes the row that was canonical final for its
\* (key, key_layer) obsolete and non-canonical, and changes no other row
C5_FinalizeEffect ==
  [][ /\ db' # db => \E p \in Procs : pc[p] = "commit" /\ res'[p].state = "ok"
      /\ \A p \in Procs :
            Succeeds(p, "finalize") =>
              LET id == call[p].id
                  prev == IF id \in Ids(db)
                            THEN CanonicalFinalIds(db, db.items[id].key,
                                                   db.items[id].key_layer)
                            ELSE {}
              IN  /\ id \in Ids(db)
                  /\ Ids(db') = Ids(db)
                  /\ \A i \in Ids(db) :
                        db'.items[i] =
                          IF i = id THEN Promote(db.items[i])
                          ELSE IF i \in prev THEN Demote(db.items[i])
                          ELSE db.items[i] ]_vars

\* C5 witness: a finalize has just succeeded; it demoted the former canonical
\* row of the key and left another draft of that key alone
C5_Witness ==
  \E p \in Procs :
     /\ pc[p] = "done" /\ call[p].op = "finalize" /\ res[p].state = "ok"
     /\ IsCanonicalFinal(db.items[call[p].id])
     /\ \E j, k \in Ids(db) :
           /\ db.items[j].status = "obsolete" /\ j \in demoted
           /\ SameKey(db.items[j], db.items[call[p].id])
           /\ db.items[k].status = "draft"
           /\ SameKey(db.items[k], db.items[call[p].id])

\* C6: the commit of a successful supersede(old_id, ...) turns old_id from
\* canonical final into obsolete and non-canonical, adds exactly one row,
\* which is final, canonical, has supersedes = old_id and old_id's key and
\* key_layer, and changes no other row
C6_SupersedeEffect ==
  [][ \A p \in Procs :
         Succeeds(p, "supersede") =>
           LET old == call[p].id
               new == Len(db.items) + 1
           IN  /\ old \in Ids(db)
               /\ IsCanonicalFinal(db.items[old])
               /\ Ids(db') = Ids(db) \cup {new}
               /\ res'[p].id = new
               /\ \A i \in Ids(db) :
                     db'.items[i] = IF i = old THEN Demote(db.items[i])
                                    ELSE db.items[i]
               /\ db'.items[new].status = "final"
               /\ db'.items[new].is_canonical
               /\ db'.items[new].supersedes = old
               /\ SameKey(db'.items[new], db.items[old]) ]_vars

\* C6 witness: a supersede has just succeeded beside a row of another key
C6_Witness ==
  \E p \in Procs :
     /\ pc[p] = "done" /\ call[p].op = "supersede" /\ res[p].state = "ok"
     /\ db.items[res[p].id].supersedes = call[p].id
     /\ db.items[call[p].id].status = "obsolete"
     /\ \E k \in Ids(db) : ~SameKey(db.items[k], db.items[res[p].id])

\* C7: a supersede whose old_id row is not canonical final when the
\* transaction reads it never succeeds: the state check raises the
\* invalid-state error (unless the storage engine fails first); and a failed
\* supersede creates no row and changes no row
C7_SupersedeRejects ==
  [][ \A p \in Procs :
         /\ ( /\ Finishes(p) /\ call[p].op = "supersede" /\ pc[p] = "select"
              /\ call[p].id \in Ids(db)
              /\ ~IsCanonicalFinal(db.items[call[p].id]) )
            => /\ res'[p].state = "error"
               /\ res'[p].msg \in {"not canonical final", "engine failure"}
               /\ res'[p].msg = "not canonical final" => res'[p].exc = InvalidStateExc
         /\ Succeeds(p, "supersede")
            => call[p].id \in Ids(db) /\ IsCanonicalFinal(db.items[call[p].id])
         /\ ( /\ pc[p] = "select" /\ call[p].op = "supersede" /\ pc'[p] # pc[p]
              /\ call[p].id \in Ids(db)
              /\ ~IsCanonicalFinal(db.items[call[p].id]) )
            => pc'[p] = "done"
         /\ Fails(p, "supersede") => db' = db ]_vars

\* C7 witness: the second supersede of the same old_id has just failed with
\* the invalid-state error; the first one's successor is in place
C7_Witness ==
  \E p \in Procs :
     /\ pc[p] = "done" /\ call[p].op = "supersede"
     /\ res[p].state = "error" /\ res[p].msg = "not canonical final"
     /\ call[p].id \in Ids(db)
     /\ db.items[call[p].id].status = "obsolete"
     /\ \E n \in Ids(db) : db.items[n].supersedes = call[p].id

\* C8: a finalize whose target row is not a draft when the transaction reads
\* it never succeeds: the state check raises the invalid-state error (unless
\* the storage engine fails first); and a failed finalize leaves every row,
\* the canonical final row of the key included, as it was
C8_FinalizeRejects ==
  [][ \A p \in Procs :
         /\ ( /\ pc[p] = "select" /\ call[p].op = "finalize" /\ pc'[p] # pc[p]
              /\ call[p].id \in Ids(db)
              /\ db.items[call[p].id].status # "draft" )
            => /\ pc'[p] = "done"
               /\ res'[p].state = "error"
               /\ res'[p].msg \in {"already final", "engine failure"}
               /\ res'[p].msg = "already final" => res'[p].exc = InvalidStateExc
         /\ Succeeds(p, "finalize")
            => call[p].id \in Ids(db) /\ db.items[call[p].id].status = "draft"
         /\ Fails(p, "finalize") => db' = db ]_vars

\* C8 witness: a finalize of the canonical final row has just failed with the
\* invalid-state error and the row is still canonical final
C8_Witness ==
  \E p \in Procs :
     /\ pc[p] = "done" /\ call[p].op = "finalize"
     /\ res[p].state = "error" /\ res[p].msg = "already final"
     /\ call[p].id \in Ids(db)
     /\ IsCanonicalFinal(db.items[call[p].id])

\* C9 (as claimed): a finalize of an id that no row has fails, leaving the
\* store unchanged, with an error kind other than the one raised for an
\* existing row that is not a draft
C9_NotFoundDistinct ==
  \A p \in Procs :
     ( /\ pc[p] = "done" /\ call[p].op = "finalize"
       /\ call[p].id \notin Ids(db) )
       => res[p].state = "error" /\ res[p].exc # InvalidStateExc

\* C10: a finalize or supersede that fails after its transaction has begun,
\* at whichever statement, leaves the committed state as it was; the
\* committed state changes only by the commit of a successful call, so a
\* demotion is never committed without its promotion or insert
C10_FailureRollsBack ==
  [][ /\ \A p \in Procs :
            (Finishes(p) /\ res'[p].state = "error") => db' = db
      /\ \A p \in Procs :
            (pc'[p] # pc[p] /\ ~(pc[p] = "commit" /\ res'[p].state = "ok"))
              => db' = db
      /\ \A i \in Ids(db) :
            (i \in Ids(db') /\ IsCanonicalFinal(db.items[i])
               /\ ~IsCanonicalFinal(db'.items[i]))
              => \E j \in Ids(db') :
                    /\ j # i
                    /\ IsCanonicalFinal(db'.items[j])
                    /\ SameKey(db'.items[j], db.items[i])
                    /\ (j \notin Ids(db) \/ ~IsCanonicalFinal(db.items[j])) ]_vars

\* C10 witness: the promotion of a finalize failed after the demotion of the
\* key's canonical row had been executed; that row is still canonical final
C10_Witness ==
  \E p \in Procs :
     /\ pc[p] = "done" /\ call[p].op = "finalize"
     /\ res[p].state = "error" /\ res[p].at \in {"promote", "commit"}
     /\ call[p].id \in Ids(db)
     /\ db.items[call[p].id].status = "draft"
     /\ CanonicalFinalIds(db, db.items[call[p].id].key,
                          db.items[call[p].id].key_layer) # {}

\* what follows the first n characters of a text
After(text, n) == SubSeq(text, n + 1, Len(text))

\* C11: the row a successful supersede created holds the caller's new_content,
\* character for character, as the prefix of its content, and what follows is
\* a note that holds the date of the update, the old row's conversation id
\* (the marker 不明 when the old row has none) and the conversation id passed
\* to supersede as an f-string renders it
C11_SupersedeContent ==
  \A p \in Procs :
     (pc[p] = "done" /\ call[p].op = "supersede" /\ res[p].state = "ok") =>
       LET new == db.items[res[p].id]
           old == db.items[call[p].id]
           n == Len(call[p].content)
           note == After(new.content, n)
       IN  /\ Len(new.content) > n
           /\ SubSeq(new.content, 1, n) = call[p].content
           /\ \E date \in Dates : Contains(note, date)
           /\ IF old.conversation_id \in {None, <<>>}
                 THEN Contains(note, <<"I","D","=","u4E0D","u660E"," ">>)
                 ELSE Contains(note, <<"I","D","=">> \o old.conversation_id \o <<" ">>)
           /\ IF call[p].conversation_id = None
                 THEN Contains(note, <<"I","D","=","N","o","n","e"," ">>)
                 ELSE Contains(note, <<"I","D","=">> \o call[p].conversation_id \o <<" ">>)

\* C11 witness: a supersede of a row that was itself created by a supersede
\* has just succeeded, so the note names the old row's own conversation id
C11_Witness ==
  \E p \in Procs :
     /\ pc[p] = "done" /\ call[p].op = "supersede" /\ res[p].state = "ok"
     /\ db.items[call[p].id].conversation_id # None
     /\ db.items[call[p].id].supersedes # 0
     /\ Contains(db.items[res[p].id].content,
                 <<"I","D","=">> \o db.items[call[p].id].conversation_id)

\* the canonical final rows of a database, with their contents
CanonicalFinalRows(d) ==
  {<<i, d.items[i]>> : i \in {j \in Ids(d) : IsCanonicalFinal(d.items[j])}}

\* C12: the commit of a successful insert_draft adds exactly one row, which
\* is a draft and not canonical, and leaves every existing row as it was, so
\* the canonical final rows are the same before and after, whatever key the
\* draft was given
C12_InsertDraftFrame ==
  [][ \A p \in Procs :
         Succeeds(p, "insert_draft") =>
           LET new == Len(db.items) + 1
           IN  /\ Ids(db') = Ids(db) \cup {new}
               /\ res'[p].id = new
               /\ db'.items[new].status = "draft"
               /\ ~db'.items[new].is_canonical
               /\ \A i \in Ids(db) : db'.items[i] = db.items[i]
               /\ CanonicalFinalRows(db') = CanonicalFinalRows(db) ]_vars

\* C12 witness: an insert_draft has just succeeded with the key of a row that
\* is canonical final
C12_Witness ==
  \E p \in Procs :
     /\ pc[p] = "done" /\ call[p].op = "insert_draft" /\ res[p].state = "ok"
     /\ db.items[res[p].id].status = "draft"
     /\ \E i \in Ids(db) :
           /\ IsCanonicalFinal(db.items[i])
           /\ SameKey(db.items[i], db.items[res[p].id])

\* C13 (as claimed): every obsolete row, whether a supersede or a finalize
\* demoted it, has a successor: a row of the same (key, key_layer) whose
\* supersedes is the obsolete row's id
C13_ObsoleteLinked ==
  \A i \in Ids(db) :
     db.items[i].status = "obsolete" =>
       \E j \in Ids(db) :
          /\ SameKey(db.items[j], db.items[i])
          /\ db.items[j].supersedes = i

\* C14: no step of insert_draft, finalize_item or supersede_item, successful
\* or failed, removes a row: every id of the committed table is an id of the
\* next committed table, and the row keeps its key, title and content
C14_RowsNeverRemoved ==
  [][ /\ Ids(db) \subseteq Ids(db')
      /\ Len(db'.items) >= Len(db.items)
      /\ \A i \in Ids(db) \cap Ids(db') :
            /\ SameKey(db'.items[i], db.items[i])
            /\ db'.items[i].title = db.items[i].title
            /\ db'.items[i].content = db.items[i].content ]_vars

\* C14 witness: two generations of obsolete rows are still in the table
\* beside the current canonical row
C14_Witness ==
  \E i, j, k \in Ids(db) :
     /\ i # j
     /\ db.items[i].status = "obsolete" /\ db.items[j].status = "obsolete"
     /\ IsCanonicalFinal(db.items[k])
     /\ SameKey(db.items[i], db.items[k]) /\ SameKey(db.items[j], db.items[k])

\* C15: a finalize or supersede whose BEGIN IMMEDIATE finds the write lock
\* held by another transaction leaves that statement only by failing: the
\* call ends with the engine's "database is locked" error, the committed
\* table and the holder's lock are untouched, and the call does not come back
\* to BEGIN IMMEDIATE (a connection reaches it only from a new call)
C15_LockTimeoutAborts ==
  [][ \A p \in Procs :
         /\ ( /\ call[p].op \in {"finalize", "supersede"}
              /\ pc[p] = "begin" /\ lock \notin {NoProc, p}
              /\ pc'[p] # pc[p] )
            => /\ pc'[p] = "done"
               /\ res'[p] = Raised(EngineExc, "database is locked", "begin")
               /\ db' = db
               /\ lock' = lock
               /\ tx'[p] = EmptyDB /\ dirty'[p] = {}
         /\ (pc'[p] = "begin" /\ pc[p] # "begin") => pc[p] = "idle"
         /\ (pc'[p] = "select" /\ pc[p] # "select")
            => pc[p] = "begin" /\ lock = NoProc /\ lock' = p ]_vars

\* C15 witness: a supersede has just failed on the lock while the other
\* connection's finalize, which has demoted a row in its transaction, still
\* holds it
C15_Witness ==
  \E p, q \in Procs :
     /\ pc[p] = "done" /\ call[p].op = "supersede"
     /\ res[p] = Raised(EngineExc, "database is locked", "begin")
     /\ lock = q /\ call[q].op = "finalize" /\ pc[q] = "promote"
     /\ dirty[q] # {}

KeywordTable ==
  [i \in 1..(Len(KEYWORD_MAP_CONSTITUTION) + Len(KEYWORD_MAP_OPERATION)) |->
     IF i <= Len(KEYWORD_MAP_CONSTITUTION)
       THEN <<KEYWORD_MAP_CONSTITUTION[i][1], "constitution",
              KEYWORD_MAP_CONSTITUTION[i][2]>>
       ELSE <<KEYWORD_MAP_OPERATION[i - Len(KEYWORD_MAP_CONSTITUTION)][1], "operation",
              KEYWORD_MAP_OPERATION[i - Len(KEYWORD_MAP_CONSTITUTION)][2]>>]

\* title + " " + content
TextOf(title, content) == title \o <<" ">> \o content

\* the entries one of whose keywords occurs, case-insensitively, in the text
MatchingEntries(title, content) ==
  {i \in DOMAIN KeywordTable :
     \E k \in DOMAIN KeywordTable[i][3] :
        Contains(Lower(TextOf(title, content)), Lower(KeywordTable[i][3][k]))}

MiscKey == <<"misc_operation", "operation">>

\* connection p's suggest_key has returned
Suggested(p) == pc[p] = "done" /\ call[p].op = "suggest_key"

\* C17: for every title and content, the two empty strings included, and
\* every table, suggest_key can always take its next step and, when it
\* returns, returns normally a pair (key, key_layer) with a non-empty key and
\* a layer that is constitution or operation
C17_SuggestKeyTotal ==
  \A p \in Procs :
     /\ pc[p] \in {"map", "gate", "query", "misc"} => ENABLED KeyNext
     /\ Suggested(p) =>
          /\ res[p].state = "ok"
          /\ res[p].ret # None
          /\ Len(res[p].ret) = 2
          /\ res[p].ret[1] # ""
          /\ res[p].ret[2] \in {"constitution", "operation"}

\* C17 witness: suggest_key("", "") has returned the default bucket
C17_Witness ==
  \E p \in Procs :
     /\ Suggested(p)
     /\ call[p].title = <<>> /\ call[p].content = <<>>
     /\ res[p].ret = MiscKey

\* C18: when a keyword of the tables occurs, case-insensitively, in
\* title + " " + content, suggest_key returns from the map tier the key of the
\* first matching entry, the constitution table coming before the operation
\* table, whatever the index holds; the sufficiency gate and the similarity
\* query are reached only when no keyword occurs
C18_TiersInOrder ==
  \A p \in Procs :
     call[p].op = "suggest_key" =>
       LET hits == MatchingEntries(call[p].title, call[p].content) IN
       /\ pc[p] \in {"gate", "query", "misc"} => hits = {}
       /\ Suggested(p) =>
            IF hits # {}
              THEN /\ res[p].ret = <<KeywordTable[Min(hits)][1], KeywordTable[Min(hits)][2]>>
                   /\ res[p].at = "map"
                   /\ res[p].msg = "unset"
              ELSE res[p].at # "map"

\* C18 witness: the text holds keywords of both tables and its title has two
\* tokens that match canonical rows of the index; the constitution key was
\* returned
C18_Witness ==
  \E p \in Procs :
     /\ Suggested(p) /\ res[p].at = "map" /\ res[p].ret[2] = "constitution"
     /\ \E i, j \in MatchingEntries(call[p].title, call[p].content) :
           KeywordTable[i][2] = "constitution" /\ KeywordTable[j][2] = "operation"
     /\ _has_enough_info(call[p].title)
     /\ SimilarGroups(db, call[p].title) # {}

\* C19 (as claimed): when no keyword occurs, the similarity query is made
\* exactly when title + " " + content holds two tokens of [A-Za-z0-9_] of
\* length >= 2; a hit is returned as the result, and the result is the
\* default bucket otherwise
C19_GateOnText ==
  \A p \in Procs :
     (Suggested(p) /\ MatchingEntries(call[p].title, call[p].content) = {}) =>
       /\ res[p].msg # "unset"
            <=> Len(AlnumTokens(TextOf(call[p].title, call[p].content))) >= 2
       /\ res[p].msg = "hits" => res[p].ret \in SimilarGroups(db, call[p].title)
       /\ res[p].msg # "hits" => res[p].ret = MiscKey

\* C19 (amended): when no keyword occurs, the similarity query is made, with
\* the title, exactly when the title alone holds two tokens of [A-Za-z0-9_]
\* of length >= 2; if it returns a hit the result is a hit's (key,
\* key_layer), and if it returns none, raises, or was not made, the result is
\* the default bucket
C19_GateOnTitle ==
  \A p \in Procs :
     (Suggested(p) /\ MatchingEntries(call[p].title, call[p].content) = {}) =>
       /\ res[p].msg # "unset" <=> Len(AlnumTokens(call[p].title)) >= 2
       /\ res[p].msg = "hits" =>
            /\ res[p].at = "similar"
            /\ res[p].ret \in SimilarGroups(db, call[p].title)
       /\ res[p].msg = "empty" => SimilarGroups(db, call[p].title) = {}
       /\ res[p].msg # "hits" => res[p].at = "misc" /\ res[p].ret = MiscKey

\* C19 witness: no keyword, a title of two tokens, the query made on a table
\* with canonical rows, no hit, the default bucket returned
C19_Witness ==
  \E p \in Procs :
     /\ Suggested(p)
     /\ MatchingEntries(call[p].title, call[p].content) = {}
     /\ Len(AlnumTokens(call[p].title)) >= 2
     /\ res[p].msg = "empty" /\ res[p].ret = MiscKey
     /\ \E i \in Ids(db) : IsCanonicalFinal(db.items[i])

\* タイムアウト
KW_timeout == <<"u30BF","u30A4","u30E0","u30A2","u30A6","u30C8">>

TimeoutKey == <<"timeout_and_retry_policy", "operation">>

\* C20 (as claimed): whenever title + " " + content contains タイムアウト,
\* suggest_key returns timeout_and_retry_policy / operation from the map tier
C20_TimeoutAlways ==
  \A p \in Procs :
     (Suggested(p) /\ Contains(TextOf(call[p].title, call[p].content), KW_timeout))
       => res[p].ret = TimeoutKey /\ res[p].at = "map"

\* C20 (amended): whenever title + " " + content contains タイムアウト and no
\* keyword of an entry scanned before timeout_and_retry_policy (a constitution
\* entry, or an operation entry listed before it), suggest_key returns
\* timeout_and_retry_policy / operation from the map tier
C20_TimeoutUnlessEarlier ==
  \A p \in Procs :
     ( /\ Suggested(p)
       /\ Contains(TextOf(call[p].title, call[p].content), KW_timeout)
       /\ \A i \in MatchingEntries(call[p].title, call[p].content) :
             \A j \in DOMAIN KeywordTable :
                (KeywordTable[j][1] = TimeoutKey[1] /\ KeywordTable[j][2] = TimeoutKey[2])
                  => i >= j )
       => res[p].ret = TimeoutKey /\ res[p].at = "map"

\* C20 witness: タイムアウト occurs in the content only, and the map tier
\* returned timeout_and_retry_policy
C20_Witness ==
  \E p \in Procs :
     /\ Suggested(p)
     /\ ~Contains(call[p].title, KW_timeout)
     /\ Contains(call[p].content, KW_timeout)
     /\ res[p].ret = TimeoutKey /\ res[p].at = "map"

(* ---------------- C21: the documented insert_draft ---------------- *)

\* the insert_draft of connection p, on the documented timeout input, has
\* succeeded
TimeoutExampleStored(p) ==
  /\ pc[p] = "done" /\ call[p].op = "insert_draft" /\ res[p].state = "ok"
  /\ call[p].title = E_timeout_title /\ call[p].content = E_timeout_content
  /\ call[p].type = "config"

HasWordPair(text) ==
  \E i \in 1..(Len(text) - 1) : text[i] \in WordChars /\ text[i + 1] \in WordChars

\* connection p runs search_similar_key on a text without such a token
SearchWithoutToken(p) ==
  call[p].op = "search_similar_key" /\ ~HasWordPair(call[p].text)

QueryTokens(text) == FirstThree(AlnumTokens(text))

\* a word of the row's title or content starts with one of the tokens,
\* letter case aside
RowMatches(row, tokens) ==
  \E n \in 1..Len(tokens) :
     \E u \in FtsTerms(row.title) \cup FtsTerms(row.content) :
        IsPrefix(Lower(tokens[n]), u)

\* C23: every entry search_similar_key returns is the (key, key_layer) of a
\* row that is canonical final in the committed state the query read and that
\* prefix-matches one of the first three tokens of the text; no (key,
\* key_layer) is returned twice; at most limit entries are returned; a key
\* that only draft or obsolete rows hold is never returned
C23_QueryResults ==
  [][ \A p \in Procs :
         Succeeds(p, "search_similar_key") =>
           LET list == res'[p].ret
               tokens == QueryTokens(call[p].text)
           IN  /\ Len(list) <= call[p].limit
               /\ \A m, n \in 1..Len(list) : list[m] = list[n] => m = n
               /\ \A n \in 1..Len(list) :
                     /\ \E i \in Ids(db) :
                           /\ IsCanonicalFinal(db.items[i])
                           /\ <<db.items[i].key, db.items[i].key_layer>> = list[n]
                           /\ RowMatches(db.items[i], tokens)
                     /\ ~ \A i \in Ids(db) :
                             <<db.items[i].key, db.items[i].key_layer>> = list[n]
                               => db.items[i].status \in {"draft", "obsolete"} ]_vars

\* C23 witness: a query has returned limit entries although more canonical
\* final groups matched, on a table where a matching draft and a matching
\* obsolete row hold keys that were not returned
C23_Witness ==
  \E p \in Procs :
     /\ pc[p] = "done" /\ call[p].op = "search_similar_key"
     /\ res[p].msg = "hits" /\ Len(res[p].ret) = call[p].limit
     /\ LET tokens == QueryTokens(call[p].text)
            returned == {res[p].ret[n] : n \in 1..Len(res[p].ret)}
        IN  /\ \E i \in Ids(db) :
                  /\ IsCanonicalFinal(db.items[i]) /\ RowMatches(db.items[i], tokens)
                  /\ <<db.items[i].key, db.items[i].key_layer>> \notin returned
            /\ \E i \in Ids(db) :
                  /\ db.items[i].status = "draft" /\ RowMatches(db.items[i], tokens)
                  /\ <<db.items[i].key, db.items[i].key_layer>> \notin returned
            /\ \E i \in Ids(db) :
                  /\ db.items[i].status = "obsolete" /\ RowMatches(db.items[i], tokens)

(* ---------------- C24: the text index follows the rows ---------------- *)

\* the index of d holds one entry per row, carrying the row's title and content
IndexFollowsRows(d) ==
  /\ DOMAIN d.fts = Ids(d)
  /\ \A i \in Ids(d) :
        d.fts[i] = [title |-> d.items[i].title, content |-> d.items[i].content]

\* C24: in every committed state (so after every committed insert_draft,
\* finalize and supersede) the text index holds exactly one entry per row,
\* with the row's current title and content; the working copy of an open
\* transaction keeps its index in step with its rows, statement by statement;
\* and a call that fails leaves the committed index as it was
C24_IndexFollowsRows ==
  /\ [](/\ IndexFollowsRows(db)
        /\ \A p \in Procs : lock = p => IndexFollowsRows(tx[p]))
  /\ [][ \A p \in Procs :
           (Finishes(p) /\ res'[p].state = "error") => db'.fts = db.fts ]_vars

\* C24 witness: a supersede that had demoted the old row and inserted the
\* new one failed at its COMMIT, on a table where an earlier commit had made
\* a row obsolete; the index still has one entry per row
C24_Witness ==
  \E p \in Procs :
     /\ pc[p] = "done" /\ call[p].op = "supersede"
     /\ res[p].state = "error" /\ res[p].at = "commit"
     /\ \E i \in Ids(db) : db.items[i].status = "obsolete"
     /\ \E i \in Ids(db) : IsCanonicalFinal(db.items[i])
     /\ DOMAIN db.fts = Ids(db)

(* ---------------- C25: judge_type ---------------- *)

\* config.TYPE_PRIORITY
TYPE_PRIORITY ==
  [t \in {"decision", "config", "procedure", "design_note"} |->
     CASE t = "decision" -> 1 [] t = "config" -> 2 [] t = "procedure" -> 3
       [] t = "design_note" -> 4]

\* the keywords of a type
KeywordsOf(type_) ==
  LET i == CHOOSE j \in 1..Len(TYPE_KEYWORDS) : TYPE_KEYWORDS[j][1] = type_
  IN  {TYPE_KEYWORDS[i][2][k] : k \in 1..Len(TYPE_KEYWORDS[i][2])}

\* how many keywords of a type occur in the lowercased title, a space and
\* the content (a keyword that occurs several times counts once)
KeywordCount(type_, title, content) ==
  Cardinality({k \in KeywordsOf(type_) : Contains(Lower(title \o <<" ">> \o content), k)})

\* C25: the type judge_type gives a (title, content) is the type of the
\* strictly highest keyword count; among the types that share the highest
\* count it is the earliest of decision > config > procedure > design_note;
\* and it is decision when no keyword of any type occurs
C25_JudgeType ==
  \A p \in Procs :
     (pc[p] = "filter" /\ call[p].op = "extract_suggestions") =>
       LET count(t) == KeywordCount(t, loc[p].title, loc[p].content)
           r == loc[p].type
       IN  /\ r \in DOMAIN TYPE_PRIORITY
           /\ IF \A t \in DOMAIN TYPE_PRIORITY : count(t) = 0
                THEN r = "decision"
                ELSE \A t \in DOMAIN TYPE_PRIORITY \ {r} :
                        \/ count(t) < count(r)
                        \/ count(t) = count(r) /\ TYPE_PRIORITY[r] < TYPE_PRIORITY[t]

\* C25 witness: a candidate in which one keyword of procedure and one of
\* design_note occur, and none of decision or config, has been judged procedure
C25_Witness ==
  \E p \in Procs :
     /\ pc[p] = "filter" /\ call[p].op = "extract_suggestions"
     /\ loc[p].type = "procedure"
     /\ KeywordCount("procedure", loc[p].title, loc[p].content) = 1
     /\ KeywordCount("design_note", loc[p].title, loc[p].content) = 1
     /\ KeywordCount("decision", loc[p].title, loc[p].content) = 0
     /\ KeywordCount("config", loc[p].title, loc[p].content) = 0

(* ---------------- C26: judge_confidence ---------------- *)

\* に統一 を使用 必ず 禁止 してはならない
DecisiveMarkers == {decisive_patterns[k] : k \in 1..Len(decisive_patterns)}

\* 推奨
RecommendationMarker == <<"u63A8","u5968">>

\* a decisive marker occurs in the lowercased title, a space and the content
HasDecisiveMarker(title, content) ==
  \E m \in DecisiveMarkers : Contains(Lower(title \o <<" ">> \o content), m)

\* a numeral, or an upper-case letter followed by a lower-case one, occurs in
\* the title followed by the content
HasConcreteToken(title, content) ==
  LET s == title \o content
  IN  \E i \in 1..Len(s) :
         \/ s[i] \in DecimalDigits
         \/ i < Len(s) /\ s[i] \in UpperSet /\ s[i + 1] \in LowerSet

\* the confidence the rule gives
RuleConfidence(title, content, type_) ==
  IF /\ HasDecisiveMarker(title, content) /\ HasConcreteToken(title, content)
     /\ type_ \in {"decision", "config"}
    THEN "HIGH"
  ELSE IF \/ Contains(Lower(title \o <<" ">> \o content), RecommendationMarker)
          \/ type_ = "procedure"
    THEN "MED"
  ELSE "LOW"

CanonicalReads == {"memory_search", "memory_get_recent_context"}

\* C27: every item memory_search and memory_get_recent_context return is a
\* row that is final and canonical in the committed state at the time of the
\* read, so never a draft or an obsolete row, shown with its own key, layer
\* and title; and memory_get_recent_context with a layer other than "all"
\* returns only rows of that layer
C27_ReadsReturnCanonical ==
  [][ \A p \in Procs :
         (Finishes(p) /\ call'[p].op \in CanonicalReads) =>
           \A item \in res'[p].ret.body :
              /\ item.id \in Ids(db)
              /\ db.items[item.id].status = "final"
              /\ db.items[item.id].is_canonical
              /\ item.key = db.items[item.id].key
              /\ item.key_layer = db.items[item.id].key_layer
              /\ item.title = db.items[item.id].title
              /\ ( /\ call'[p].op = "memory_get_recent_context"
                   /\ call'[p].layer # "all" )
                   => db.items[item.id].key_layer = call'[p].layer ]_vars

\* C27 witness: memory_get_recent_context for the constitution layer has
\* returned a row, on a table that also holds a canonical final row of the
\* operation layer and an obsolete row
C27_Witness ==
  \E p \in Procs :
     /\ pc[p] = "done" /\ call[p].op = "memory_get_recent_context"
     /\ call[p].layer = "constitution" /\ call[p].limit = 10
     /\ res[p].ret.body # {}
     /\ \E i \in Ids(db) :
           IsCanonicalFinal(db.items[i]) /\ db.items[i].key_layer = "operation"
     /\ \E i \in Ids(db) : db.items[i].status = "obsolete"

(* ---------------- C28: the shape of a response ---------------- *)

\* C28 (as claimed): every response of every tool is a structured object
\* with a status field; a failure (an absent id, a row in the wrong state,
\* the write lock not obtained, an unknown tool) is answered with a
\* structured error payload, never with a bare message
C28_ResponsesStructured ==
  \A p \in Procs :
     pc[p] = "done" =>
       /\ ToolResponse(p).format = "json"
       /\ ToolResponse(p).status \in {"success", "error"}
       /\ (call[p].op \in WriteOps /\ res[p].state = "error")
            => ToolResponse(p).status = "error"

(* ---------------- C29: what extract_suggestions returns ---------------- *)

\* the candidate a turn gives
CandidateOf(turn) ==
  LET title == _extract_title(turn.content)
      content == _extract_content(turn.content)
      type_ == judge_type(title, content)
  IN  [title |-> title, content |-> content, type |-> type_,
       confidence |-> judge_confidence(title, content, type_)]

\* C29: extract_suggestions returns at most MAX_AUTO_SUGGESTIONS
\* candidates; they are the candidates of turns of the log taken in log
\* order, each turn an assistant turn that contains a decision-phrasing
\* marker, and each candidate of confidence HIGH; no candidate of a user
\* turn and no candidate of another confidence is returned
C29_ExtractSuggestions ==
  \A p \in Procs :
     (pc[p] = "done" /\ call[p].op = "extract_suggestions") =>
       LET list == res[p].ret
           log == call[p].log
       IN  /\ Len(list) <= MAX_AUTO_SUGGESTIONS
           /\ \A n \in 1..Len(list) : list[n].confidence = "HIGH"
           /\ \E f \in [1..Len(list) -> 1..Len(log)] :
                 /\ \A m, n \in 1..Len(list) : m < n => f[m] < f[n]
                 /\ \A n \in 1..Len(list) :
                       /\ log[f[n]].role = "assistant"
                       /\ \E k \in 1..Len(decision_patterns) :
                             Contains(log[f[n]].content, decision_patterns[k])
                       /\ list[n] = CandidateOf(log[f[n]])

\* C29 witness: a log that opens with a user turn holding a marker, and that
\* holds six assistant turns of confidence HIGH and one of confidence MED,
\* has been answered with five candidates
C29_Witness ==
  \E p \in Procs :
     /\ pc[p] = "done" /\ call[p].op = "extract_suggestions"
     /\ call[p].log = L_cap
     /\ Len(res[p].ret) = 5
     /\ res[p].ret[5].title = _extract_title(A_k5.content)

(* ---------------- C30: duplicates within one batch ---------------- *)

\* the Jaccard similarity of the character sets of two titles is above 0.7
SimilarByJaccard(title, existing_title) ==
  10 * Cardinality(CharSet(title) \cap CharSet(existing_title))
    > 7 * Cardinality(CharSet(title) \cup CharSet(existing_title))

\* C30 (as claimed): a candidate of confidence HIGH is discarded as the
\* duplicate of a candidate already kept exactly when the Jaccard similarity
\* of the character sets of their titles is above 0.7; at 0.7 or below it is
\* kept
C30_DuplicateIsJaccard ==
  [][ \A p \in Procs :
         ( /\ pc[p] = "filter" /\ call[p].op = "extract_suggestions"
           /\ loc[p].confidence = "HIGH" /\ pc'[p] # "filter" ) =>
           ( loc'[p].suggestions = loc[p].suggestions
               <=> \E n \in 1..Len(loc[p].suggestions) :
                      SimilarByJaccard(loc[p].title, loc[p].suggestions[n].title) ) ]_vars

(* ---------------- C31: memory_list_suggestions and the logged conversation ---------------- *)

\* the log holds an assistant turn that the extractor keeps: a decision of
\* confidence HIGH
HasHighDecision(log) == extract_suggestions(log) # <<>>

\* C31: memory_list_suggestions returns the candidates the extractor derives
\* from the log of the conversation in progress: once drafts are saved and a
\* conversation with an assistant decision of confidence HIGH is logged, its
\* list of suggestions is not empty
C31_SuggestionsOfLoggedConversation ==
  \A p \in Procs :
     (/\ pc[p] = "done"
      /\ call[p].op = "memory_list_suggestions"
      /\ Ids(db) # {}
      /\ \E conversation_id \in DOMAIN LogFiles :
            HasHighDecision(load_conversation_log(conversation_id)))
       => res[p].ret.body # <<>>

(* ---------------- C32: canonical exactly when final ---------------- *)

\* C32: in every committed state a row has is_canonical = TRUE if and only if
\* its status is 'final': no draft and no obsolete row is canonical, and no
\* final row is not canonical
C32_CanonicalIffFinal ==
  \A i \in Ids(db) : db.items[i].is_canonical <=> db.items[i].status = "final"

\* C32 witness: the committed table holds a draft, a row made obsolete by a
\* finalize or a supersede call, and a final row, the first two not canonical
\* and the third canonical
C32_Witness ==
  \E i, j, k \in Ids(db) :
     /\ db.items[i].status = "draft" /\ ~db.items[i].is_canonical
     /\ db.items[j].status = "obsolete" /\ ~db.items[j].is_canonical
     /\ j \in demoted
     /\ db.items[k].status = "final" /\ db.items[k].is_canonical

(* ---------------- C33: a populated key stays populated ---------------- *)

\* C33: a (key, key_layer) that has a canonical final row in a committed
\* state has exactly one canonical final row in the next committed state,
\* and so in every later one, whatever finalize and supersede calls succeed
\* or fail in between
C33_PopulatedKeyStaysPopulated ==
  [][\A k \in KeyPairs(db) :
        CanonicalFinalIds(db, k[1], k[2]) # {}
          => Cardinality(CanonicalFinalIds(db', k[1], k[2])) = 1]_vars

\* C33 witness: the canonical row of a key was replaced by a finalize and
\* then by a supersede, and the key has its third canonical final row
C33_Witness ==
  \E i, j, k \in Ids(db) :
     /\ i # j /\ i \in demoted /\ j \in demoted
     /\ db.items[j].supersedes = 0
     /\ db.items[k].supersedes = j
     /\ SameKey(db.items[i], db.items[k]) /\ SameKey(db.items[j], db.items[k])
     /\ CanonicalFinalIds(db, db.items[k].key, db.items[k].key_layer) = {k}

(* ---------------- C34: two supersede calls on one row ---------------- *)

\* the rows whose supersedes field is id
Successors(d, id) == {i \in Ids(d) : d.items[i].supersedes = id}

\* both calls have returned to their callers
BothReturned == \A p \in Procs : pc[p] = "returned"

\* no call met a failure of the storage engine other than the lock timeout
NoEngineFailure == \A p \in Procs : res[p].msg # "engine failure"

\* a failing call leaves the committed table as it is; a succeeding call adds
\* one row, the successor of its old_id, and returns its id
SupersedeAddsOneOrNothing ==
  \A p \in Procs :
     /\ Fails(p, "supersede") => db' = db
     /\ Succeeds(p, "supersede") =>
          /\ Len(db'.items) = Len(db.items) + 1
          /\ res'[p].id = Len(db'.items)
          /\ db'.items[res'[p].id].supersedes = call[p].id

C35_SupersedesWellFormed ==
  \A r \in Ids(db) :
     LET s == db.items[r].supersedes IN
       s # 0 =>
         /\ s \in Ids(db)
         /\ s < r
         /\ db.items[s].key = db.items[r].key
         /\ db.items[s].key_layer = db.items[r].key_layer
         /\ db.items[s].type = db.items[r].type
         /\ db.items[s].status = "obsolete"
         /\ ~db.items[s].is_canonical

\* C35 witness: a chain of two links, the canonical row superseding a row
\* that itself superseded the first row of the key
C35_Witness ==
  \E r \in Ids(db) :
     /\ IsCanonicalFinal(db.items[r])
     /\ db.items[r].supersedes \in Ids(db)
     /\ db.items[db.items[r].supersedes].supersedes \in Ids(db)
====
